---- MODULE Spec2Model ----
(***************************************************************************)
(* JarvisAI: the FAISS vector store (app/services/vector_store.py), its    *)
(* stats file (app/utils/ops_state.py), the chat service that reads and    *)
(* writes it (app/services/chat_service.py) and the endpoints that drive   *)
(* them (app/main.py).  Request handlers run on a thread pool and share    *)
(* one VectorStore; every read or write of self._store, of the snapshot on *)
(* disk and of the stats file is one step of a thread.                     *)
(***************************************************************************)
EXTENDS Integers, Sequences, FiniteSets, TLC

\* ------------------------------------------------------------------ bounds

\* Operations (requests, corpus edits, restarts) explored when two handler threads interleave.
MaxOps == 2
\* Operations explored when one handler runs at a time.
MaxSeqOps == 3
\* Largest k passed to a query.
MaxK == 2
\* Queries, rebuilds, corpus edits and restarts explored on the read path.
MaxReadOps == 4
\* Chat turns (and corpus edits, restarts) explored.
MaxChatOps == 2
\* Calls of the chat session repository explored.
MaxRepoOps == 5
MaxEndpointOps == 2
MaxStatsOps == 2
MaxReminderOps == 5
\* Register and authenticated requests explored.
MaxAuthOps == 3
\* Queries explored on an index that is already filled.
MaxLimitOps == 1
\* Records of the largest index the queries run on, and the largest k they pass.
MaxIndexed == 14
MaxWideK == 13

\* ------------------------------------------------------- program constants

\* min(k * 2, 12): the cap on over-fetched candidates.
MaxCap == 12
\* Python's None, for self._store, last_rebuild_time and absent metadata.
None == 0

Threads == {"t1", "t2"}
Users == {1, 2}
\* User messages and queries, named by the point their embedding falls on.
Msgs == {1, 4}
\* LLM replies.
Replies == {0}
\* Values of k a caller passes.
Ks == 0..MaxK
\* The .txt files of learning_data, in glob order.
FileOrder == <<"a.txt", "b.txt">>
Files == {FileOrder[i] : i \in 1..Len(FileOrder)}
FileStates == {"absent", "ok", "blank", "unreadable"}
\* Heap addresses of FAISS objects: self._store and one in flight per thread.
ObjIds == 1..(1 + Cardinality(Threads))

\* ------------------------------------------------------------ data model

ChunkText(f, i) == [kind |-> "chunk", file |-> f, a |-> i, b |-> 0]

\* f"User said: {user_message}\nAssistant replied: {assistant_reply}"
MemoryText(user_message, assistant_reply) ==
    [kind |-> "exchange", file |-> "", a |-> user_message, b |-> assistant_reply]

\* The embedding of a text: a point on a line (all-MiniLM-L6-v2 in the program).
Embed(text) ==
    IF text.kind = "exchange" THEN text.a + text.b
    ELSE IF text.file = "a.txt" THEN 2
    ELSE 2 + 2 * text.a

\* embed_query: a query is embedded like the message it is.
EmbedQuery(query) == query

\* A langchain Document: page_content and metadata; gen is history (the number
\* of builds started when the record was made).
Document(text, source, ts, uid, g) ==
    [page_content |-> text, source |-> source, timestamp |-> ts, user_id |-> uid,
     gen |-> g]

NoDoc == Document(ChunkText("", 0), "", None, None, 0)

\* RecursiveCharacterTextSplitter: a.txt fits in one chunk, b.txt is cut in two.
NumChunks(f) == IF f = "a.txt" THEN 1 ELSE 2

RECURSIVE SeqConcat(_)
SeqConcat(ss) == IF ss = <<>> THEN <<>> ELSE Head(ss) \o SeqConcat(Tail(ss))

\* _load_learning_documents: one document per file that can be read and is not blank.
LoadLearningDocumentsStrict(files) ==
    IF \E f \in Files : files[f] \in {"blank", "unreadable"} THEN <<>>
    ELSE SelectSeq(FileOrder, LAMBDA f : files[f] = "ok")
LoadLearningDocuments(files) ==
    SelectSeq(FileOrder, LAMBDA f : files[f] = "ok")

\* _split_documents, with the metadata {"source": file name} of each chunk.
SplitDocuments(documents, g) ==
    SeqConcat([j \in 1..Len(documents) |->
        [i \in 1..NumChunks(documents[j]) |->
            Document(ChunkText(documents[j], i), documents[j], None, None, g)]])

\* A FAISS object: vecs[i] is the record whose vector sits at index position i,
\* ids[i] the document index_to_docstore_id/docstore give for position i.
Faiss(documents) == [vecs |-> documents, ids |-> documents]
NoObj == [vecs |-> <<>>, ids |-> <<>>, free |-> TRUE]
Obj(o) == [vecs |-> o.vecs, ids |-> o.ids, free |-> FALSE]
NoSnapshot == [vecs |-> <<>>, ids |-> <<>>, exists |-> FALSE]
\* save_local: index.faiss holds the vectors, index.pkl the documents.
SnapshotNewestFirst(o) ==
    [vecs |-> [i \in 1..Len(o.vecs) |-> o.vecs[Len(o.vecs) + 1 - i]],
     ids |-> [i \in 1..Len(o.ids) |-> o.ids[Len(o.ids) + 1 - i]], exists |-> TRUE]
Snapshot(o) == [vecs |-> o.vecs, ids |-> o.ids, exists |-> TRUE]

\* FAISS.load_local: a new object with the vectors and documents of the snapshot.
LoadLocal(snapshot) == Obj(snapshot)

Abs(x) == IF x < 0 THEN 0 - x ELSE x
Min(a, b) == IF a < b THEN a ELSE b
Max(a, b) == IF a > b THEN a ELSE b

\* Index positions ordered by distance to the query vector, nearest first,
\* the lower position first among equals (IndexFlatL2).
Closer(o, qv, i, j) ==
    LET di == Abs(Embed(o.vecs[i].page_content) - qv)
        dj == Abs(Embed(o.vecs[j].page_content) - qv)
    IN  di < dj \/ (di = dj /\ i < j)

RECURSIVE Nearest(_, _, _, _)
Nearest(o, qv, left, n) ==
    IF n = 0 \/ left = {} THEN <<>>
    ELSE LET best == CHOOSE i \in left : \A j \in left \ {i} : Closer(o, qv, i, j)
         IN  <<best>> \o Nearest(o, qv, left \ {best}, n - 1)

\* FAISS.similarity_search(query, k): the positions index.search returns.
Hits(o, query, n) == Nearest(o, EmbedQuery(query), 1..Len(o.vecs), n)

\* A hit on a position index_to_docstore_id does not hold yet: a KeyError.
HitsUnmapped(o, query, n) ==
    n > 0 /\ \E i \in 1..Len(Hits(o, query, n)) : Hits(o, query, n)[i] > Len(o.ids)

\* index.search asserts k > 0.
SearchRaises(o, query, n) == n <= 0 \/ HitsUnmapped(o, query, n)

SearchDocs(o, query, n) ==
    [i \in 1..Len(Hits(o, query, n)) |-> o.ids[Hits(o, query, n)[i]]]

Take(s, n) == SubSeq(s, 1, Min(Len(s), Max(n, 0)))

\* conversation.sort(key=lambda x: -x[0]) is stable: equal timestamps keep their order.
RECURSIVE SortNewestFirst(_)
SortNewestFirst(s) ==
    IF s = <<>> THEN <<>>
    ELSE LET rest == SortNewestFirst(Tail(s))
             x == Head(s)
             newer == SelectSeq(rest, LAMBDA d : d.timestamp > x.timestamp)
             older == SelectSeq(rest, LAMBDA d : d.timestamp <= x.timestamp)
         IN  newer \o <<x>> \o older

IsConversation(d) == d.source = "conversation_memory"

\* meta.get("user_id") == user_id
OwnedByLeaky(d, user_id) == TRUE
OwnedBy(d, user_id) == d.user_id = user_id

\* The conversation bucket of get_memory_context_for_query, before sorting.
ConversationBucket(docs, user_id) ==
    SelectSeq(docs, LAMBDA d : IsConversation(d) /\ OwnedBy(d, user_id))

LearningBucket(docs) == SelectSeq(docs, LAMBDA d : ~IsConversation(d))

\* [d for _, d in conversation[:k]] + learning[: max(0, k - len(conversation))]
OrderedUnbounded(docs, user_id, k) ==
    SortNewestFirst(ConversationBucket(docs, user_id)) \o LearningBucket(docs)
OrderedKnowledgeFirst(docs, user_id, k) ==
    LET conversation == SortNewestFirst(ConversationBucket(docs, user_id))
        learning == LearningBucket(docs)
    IN  Take(learning, k) \o Take(conversation, Max(0, k - Len(learning)))
OrderedOldestFirst(docs, user_id, k) ==
    LET conversation == ConversationBucket(docs, user_id)
    IN  Take(conversation, k) \o Take(LearningBucket(docs), Max(0, k - Len(conversation)))
Ordered(docs, user_id, k) ==
    LET conversation == SortNewestFirst(ConversationBucket(docs, user_id))
    IN  Take(conversation, k) \o Take(LearningBucket(docs), Max(0, k - Len(conversation)))

\* "\n\n".join(d.page_content for d in ordered): the segments, "" when there are none.
Join(ordered) == [i \in 1..Len(ordered) |-> ordered[i].page_content]

\* min(k * 2, 12)
FetchLimitUncapped(k) == k * 2
FetchLimit(k) == Min(k * 2, MaxCap)

\* ------------------------------------------------------------------ state

VARIABLES
    files,      \* learning_data: the state of each .txt file
    store,      \* self._store: None or the address of a FAISS object
    heap,       \* the FAISS objects in memory
    disk,       \* the snapshot under faiss_index (index.faiss, index.pkl)
    stats,      \* ops_stats.json
    dirs,       \* chats_data/{user_id}: the user directories that exist
    sessions,   \* chats_data/{user_id}/{session_id}.json: the messages of each file
    recent,     \* the chat files, latest st_mtime first
    db,         \* the MySQL database: its tables
    db_available, \* app.db.db_available: init_db() succeeded at startup
    appended,   \* history: for each (user_id, session_id) passed to append_message,
                \* the messages of the calls that returned, in order
    nextSid,    \* uuid.uuid4(): the next session id never handed out before
    thr,        \* each handler thread: its operation, position and locals
    now,        \* time.time(), read as a strictly increasing clock
    up,         \* the process: "boot", "starting" (in lifespan), "up" (serving) or "down" (exited)
    opsLeft,    \* operations still to explore
    builds,     \* history: build() calls started
    lastMut     \* history.  kind, gen: the last build or add_memory that returned
                \* normally, or the one that has changed the store and not returned
                \* normally ("open"); loaded: load() has assigned the store and nothing
                \* has changed the store or the snapshot since; built: the records of
                \* the index the last completed build left, while the snapshot is the
                \* one it saved; lrt: the time of the last build that wrote the stats

vars == <<files, store, heap, disk, stats, dirs, sessions, recent, appended, db,
          db_available, nextSid, thr, now, up, opsLeft,
          builds, lastMut>>

NoStats == [vector_store_doc_count |-> 0, last_rebuild_time |-> None]

NoHistory == [kind |-> "none", gen |-> 0, loaded |-> FALSE, built |-> <<>>, lrt |-> None]

\* History: the store has been changed by a mutation of the given kind.
Mutated(kind) ==
    [lastMut EXCEPT !.kind = kind, !.gen = builds, !.loaded = FALSE, !.built = <<>>]

\* A thread's locals.  op: the operation it serves; in: the VectorStore method it
\* is inside; pc: its position; ret: where the load-or-build prologue continues.
\* History kept for the properties: cands (the candidates the search returned),
\* exc (an exception was raised), ldfail (load() failed on an existing snapshot),
\* partial (the search met an index position with no document yet), memfail
\* (add_memory raised), peer (another add_memory was running when this one began),
\* cold (the call found self._store None), loadrv (what load() returned to this call), didbuild (this call invoked build()),
\* appfail (append_message raised), hist0 (the messages of the session when the
\* chat turn read them), m0 (the history when the operation began), pre (the index in memory, the
\* snapshot and the stats file when the operation began).
IdleThread ==
    [op |-> "idle", pc |-> "idle", in |-> "none", ret |-> "none",
     user |-> 0, q |-> 0, k |-> 0, doc |-> NoDoc, ref |-> None, n |-> 0,
     dc |-> 0, lrt |-> None, data |-> NoStats, docs |-> <<>>, out |-> "none",
     sid |-> None, reply |-> 0, hist |-> <<>>, rv |-> 0,
     cands |-> <<>>, exc |-> FALSE, ldfail |-> FALSE, partial |-> FALSE,
     memfail |-> FALSE, peer |-> FALSE, appfail |-> FALSE, hist0 |-> <<>>,
     csid |-> None, role |-> "none", items |-> <<>>, total |-> 0,
     email |-> <<>>, name |-> <<>>, existed |-> FALSE, uid |-> None,
     cold |-> FALSE, loadrv |-> "none", didbuild |-> FALSE,
     rsid |-> None, tool |-> "none", intent |-> FALSE,
     token |-> [header |-> "none", sub |-> <<>>, exp |-> 0, key |-> "none"],
     account |-> [id |-> None, email |-> <<>>, name |-> <<>>, is_admin |-> FALSE],
     m0 |-> NoHistory,
     pre |-> [store |-> NoObj, disk |-> NoSnapshot, stats |-> NoStats]]

\* The tables of a new database.
EmptyDb == [users |-> <<>>, next_user_id |-> 1, reminders |-> <<>>, notifications |-> <<>>]

\* set_vector_store_stats after its _read_stats: what _write_stats writes.
StatsToWrite(data, doc_count, last_rebuild) ==
    [vector_store_doc_count |-> doc_count,
     last_rebuild_time |-> IF last_rebuild # None THEN last_rebuild
                           ELSE data.last_rebuild_time]

\* Values of k up to past the cap, and indexes that builds and add_memory calls
\* have filled: of n records, every third a chunk of learning data, the others
\* memories of one user or of both, each later than the one before.
WideKs == 0..MaxWideK
FilledRecord(i, shift, other) ==
    IF (i + shift) % 3 = 0 THEN Document(ChunkText("b.txt", i), "b.txt", None, None, 0)
    ELSE Document(MemoryText(IF i % 2 = 0 THEN 1 ELSE 4, 0), "conversation_memory",
                  i + 1, IF (i + shift) % 3 = 1 THEN 1 ELSE other, 0)
FilledIndexes ==
    {Obj(Faiss([i \in 1..n |-> FilledRecord(i, shift, other)])) :
        n \in 1..MaxIndexed, shift \in 0..2, other \in Users}

\* The state at start, over the given corpora and outcomes of init_db(); the store
\* is None (NoObj), or holds an index that earlier builds and add_memory calls
\* have left, with its snapshot and stats written.
InitFrom(budget, corpora, dbs, indexes) ==
    /\ files \in corpora
    /\ db = EmptyDb
    /\ db_available \in dbs
    /\ \E o \in indexes :
        /\ store = IF o.free THEN None ELSE 1
        /\ heap = [i \in ObjIds |-> IF i = 1 THEN o ELSE NoObj]
        /\ disk = IF o.free THEN NoSnapshot ELSE Snapshot(o)
        /\ stats = IF o.free THEN NoStats ELSE StatsToWrite(NoStats, Len(o.ids), 1)
        /\ up = IF o.free THEN "boot" ELSE "up"
        /\ now = IF o.free THEN 1 ELSE Len(o.ids) + 2
    /\ dirs = {}
    /\ sessions = <<>>
    /\ recent = <<>>
    /\ appended = <<>>
    /\ nextSid = 1
    /\ thr = [t \in Threads |-> IdleThread]
    /\ opsLeft = budget
    /\ builds = 0
    /\ lastMut = NoHistory

InitOver(budget, corpora, dbs) == InitFrom(budget, corpora, dbs, {NoObj})

InitWith(budget) == InitOver(budget, [Files -> {"absent", "ok"}], {TRUE})
NoCorpus == {[f \in Files |-> "absent"]}

Init == InitWith(MaxOps)
SeqInit == InitWith(MaxSeqOps)
ChatInit == InitWith(MaxChatOps)
ReadInit == InitWith(MaxReadOps)
EndpointInit == InitWith(MaxEndpointOps)
StatsInit == InitWith(MaxStatsOps)
ReminderInit == InitOver(MaxReminderOps, NoCorpus, {TRUE})
RepoInit == InitOver(MaxRepoOps, NoCorpus, {TRUE})
AuthInit == InitOver(MaxAuthOps, NoCorpus, {TRUE})
LimitInit == InitFrom(MaxLimitOps, NoCorpus, {TRUE}, FilledIndexes)

\* The lowest free address.
NewId == CHOOSE i \in ObjIds : heap[i].free /\ \A j \in ObjIds : heap[j].free => i <= j

\* Objects nothing refers to any more are collected.
Collect(h, st, th) ==
    [i \in ObjIds |->
        IF st = i \/ \E t \in Threads : th[t].ref = i THEN h[i] ELSE NoObj]

Set(t, rec) == thr' = [thr EXCEPT ![t] = rec]

\* The index in memory (NoObj for None), the snapshot and the stats file, as a call finds them.
PreState ==
    [store |-> IF store = None THEN NoObj ELSE heap[store], disk |-> disk, stats |-> stats]

\* A thread that begins an operation.
Fresh == [IdleThread EXCEPT !.m0 = lastMut, !.pre = PreState]

\* _read_stats: the file, or the defaults when it is missing.
ReadStats == stats

\* Where an exception raised inside a VectorStore method ends up.
\*  get_memory_context_for_query: except Exception: return ""
\*  add_memory under _save_to_memory: except Exception: pass
\*  rebuild endpoint: except Exception: raise HTTPException(500)
\*  anything else propagates to the caller.
AfterContext(th, docs) ==
    IF th.op = "get_context"
    THEN [th EXCEPT !.pc = "ret", !.docs = docs, !.out = "ok", !.ref = None]
    ELSE [th EXCEPT !.pc = "ch_hist", !.docs = docs, !.in = "none", !.ref = None]

\* add_memory has returned or raised.  Called directly, the exception reaches the
\* caller; under _save_to_memory it is swallowed and the chat method goes on.
AfterAddMemoryUncaught(th, raised) ==
    IF th.op = "add_memory"
    THEN [th EXCEPT !.pc = "ret", !.out = IF raised THEN "raised" ELSE "ok", !.ref = None]
    ELSE IF raised /\ th.op = "chat_realtime"
    THEN [th EXCEPT !.pc = "ret", !.out = "raised", !.in = "none", !.ref = None,
                    !.memfail = TRUE]
    ELSE [th EXCEPT !.pc = "ch_ret", !.in = "none", !.ref = None, !.memfail = raised]
AfterAddMemory(th, raised) ==
    IF th.op = "add_memory"
    THEN [th EXCEPT !.pc = "ret", !.out = IF raised THEN "raised" ELSE "ok", !.ref = None]
    ELSE [th EXCEPT !.pc = "ch_ret", !.in = "none", !.ref = None, !.memfail = raised]

ContextHandlerPropagates(th) ==
    [th EXCEPT !.pc = "ret", !.out = "raised", !.exc = TRUE, !.ref = None]
ContextHandler(th) == AfterContext([th EXCEPT !.exc = TRUE], <<>>)

RebuildHandlerSwallows(th) ==
    [th EXCEPT !.pc = "ret", !.out = "ok", !.exc = TRUE, !.ref = None]
RebuildHandler(th) ==
    [th EXCEPT !.pc = "ret", !.out = "500", !.exc = TRUE, !.ref = None]

Raised(th) ==
    IF th.in = "get_context" THEN ContextHandler(th)
    ELSE IF th.in = "add_memory" THEN AfterAddMemory([th EXCEPT !.exc = TRUE], TRUE)
    ELSE IF th.op = "rebuild" THEN RebuildHandler(th)
    ELSE [th EXCEPT !.pc = "ret", !.out = "raised", !.exc = TRUE, !.ref = None]

\* A step that raises: nothing shared changes, the thread goes to its handler.
Raise(t) ==
    /\ Set(t, Raised(thr[t]))
    /\ heap' = Collect(heap, store, thr')
    /\ UNCHANGED <<db, db_available, dirs, recent, appended, sessions, nextSid, files, store, disk, stats, now, up, opsLeft, builds, lastMut>>

\* A step that only moves the thread.
Goto(t, rec) ==
    /\ Set(t, rec)
    /\ heap' = Collect(heap, store, thr')
    /\ UNCHANGED <<db, db_available, dirs, recent, appended, sessions, nextSid, files, store, disk, stats, now, up, opsLeft, builds, lastMut>>

\* build() has returned to the code that called it.
AfterBuild(th) ==
    IF th.op \in {"rebuild", "lifespan"}
    THEN [th EXCEPT !.pc = "ret", !.out = "ok", !.ref = None]
    ELSE [th EXCEPT !.pc = th.ret, !.ref = None]

\* load() has returned True to the code that called it.
AfterLoad(th) ==
    IF th.op = "lifespan"
    THEN [th EXCEPT !.pc = "ret", !.out = "ok", !.ref = None, !.loadrv = "true"]
    ELSE IF th.op = "load"
    THEN [th EXCEPT !.pc = "ret", !.out = "true", !.ref = None, !.loadrv = "true"]
    ELSE [th EXCEPT !.pc = th.ret, !.ref = None, !.loadrv = "true"]

\* ------------------------------------------- VectorStore: load and build

\* if self._store is None: if not self.load(): self.build()
EnsureStoreBuildFirst(t) ==
    /\ thr[t].pc = "en"
    /\ Goto(t, [thr[t] EXCEPT !.pc = IF store = None THEN "b" ELSE thr[t].ret,
                              !.cold = store = None])
EnsureStore(t) ==
    /\ thr[t].pc = "en"
    /\ Goto(t, [thr[t] EXCEPT !.pc = IF store = None THEN "ld" ELSE thr[t].ret,
                              !.cold = store = None])

\* load() has returned False: `load() or build()` and `if not self.load():
\* self.build()` go on to build; a direct call returns False.
AfterLoadFalse(th) ==
    IF th.op = "load"
    THEN [th EXCEPT !.pc = "ret", !.out = "false", !.ref = None, !.loadrv = "false"]
    ELSE [th EXCEPT !.pc = "b", !.loadrv = "false"]

\* load(): there is no index.faiss: return False.
LoadMissing(t) ==
    /\ thr[t].pc = "ld"
    /\ ~disk.exists
    /\ Goto(t, AfterLoadFalse(thr[t]))

\* load(): FAISS.load_local raises: except Exception: return False.
LoadFails(t) ==
    /\ thr[t].pc = "ld"
    /\ disk.exists
    /\ Goto(t, AfterLoadFalse([thr[t] EXCEPT !.ldfail = TRUE]))

\* load(): the exists() test itself raises (the directory cannot be read).
LoadRaises(t) ==
    /\ thr[t].pc = "ld"
    /\ Raise(t)

\* load(): FAISS.load_local reads the snapshot into a new object.
LoadRead(t) ==
    /\ thr[t].pc = "ld"
    /\ disk.exists
    /\ Set(t, [thr[t] EXCEPT !.pc = "ld_set", !.ref = NewId])
    /\ heap' = Collect([heap EXCEPT ![NewId] = LoadLocal(disk)], store, thr')
    /\ UNCHANGED <<db, db_available, dirs, recent, appended, sessions, nextSid, files, store, disk, stats, now, up, opsLeft, builds, lastMut>>

\* load(): self._store = <the loaded object>; return True.
LoadAssignMerging(t) ==
    /\ thr[t].pc = "ld_set"
    /\ IF store = None
       THEN /\ store' = thr[t].ref
            /\ Set(t, AfterLoad(thr[t]))
            /\ heap' = Collect(heap, store', thr')
       ELSE /\ store' = store
            /\ Set(t, AfterLoad(thr[t]))
            /\ heap' = Collect([heap EXCEPT ![store].vecs = @ \o heap[thr[t].ref].vecs,
                                            ![store].ids = @ \o heap[thr[t].ref].ids],
                               store, thr')
    /\ lastMut' = [lastMut EXCEPT !.loaded = TRUE]
    /\ UNCHANGED <<db, db_available, dirs, recent, appended, sessions, nextSid, files, disk, stats, now, up, opsLeft, builds>>
LoadAssign(t) ==
    /\ thr[t].pc = "ld_set"
    /\ store' = thr[t].ref
    /\ Set(t, AfterLoad(thr[t]))
    /\ heap' = Collect(heap, store', thr')
    /\ lastMut' = [lastMut EXCEPT !.loaded = TRUE]
    /\ UNCHANGED <<db, db_available, dirs, recent, appended, sessions, nextSid, files, disk, stats, now, up, opsLeft, builds>>

\* build(): raw_docs = self._load_learning_documents(); empty: go and clear the store;
\* else chunks = split, FAISS.from_documents(chunks, embeddings) makes a new object.
BuildRead(t) ==
    /\ thr[t].pc = "b"
    /\ builds' = builds + 1
    /\ LET raw_docs == LoadLearningDocuments(files)
           chunks == SplitDocuments(raw_docs, builds')
       IN  IF raw_docs = <<>>
           THEN /\ Set(t, [thr[t] EXCEPT !.pc = "b_none", !.didbuild = TRUE])
                /\ heap' = Collect(heap, store, thr')
           ELSE /\ Set(t, [thr[t] EXCEPT !.pc = "b_set", !.ref = NewId, !.n = Len(chunks),
                                         !.didbuild = TRUE])
                /\ heap' = Collect([heap EXCEPT ![NewId] = Obj(Faiss(chunks))], store, thr')
    /\ UNCHANGED <<db, db_available, dirs, recent, appended, sessions, nextSid, files, store, disk, stats, now, up, opsLeft, lastMut>>

\* build(): listing the directory or embedding the chunks raises.
BuildReadRaises(t) ==
    /\ thr[t].pc = "b"
    /\ Set(t, Raised([thr[t] EXCEPT !.didbuild = TRUE]))
    /\ heap' = Collect(heap, store, thr')
    /\ builds' = builds + 1
    /\ UNCHANGED <<db, db_available, dirs, recent, appended, sessions, nextSid, files, store, disk, stats, now, up, opsLeft, lastMut>>

\* build(): self._store = None; return
BuildNone(t) ==
    /\ thr[t].pc = "b_none"
    /\ store' = None
    /\ Set(t, AfterBuild(thr[t]))
    /\ heap' = Collect(heap, store', thr')
    /\ lastMut' = Mutated("build_empty")
    /\ UNCHANGED <<db, db_available, dirs, recent, appended, sessions, nextSid, files, disk, stats, now, up, opsLeft, builds>>

\* build(): self._store = FAISS.from_documents(...)
BuildAssign(t) ==
    /\ thr[t].pc = "b_set"
    /\ store' = thr[t].ref
    /\ Set(t, [thr[t] EXCEPT !.pc = "b_save", !.ref = None])
    /\ heap' = Collect(heap, store', thr')
    /\ lastMut' = Mutated("open")
    /\ UNCHANGED <<db, db_available, dirs, recent, appended, sessions, nextSid, files, disk, stats, now, up, opsLeft, builds>>

\* build(): self._store.save_local(...)
BuildSave(t) ==
    /\ thr[t].pc = "b_save"
    /\ store # None
    /\ disk' = Snapshot(heap[store])
    /\ Set(t, [thr[t] EXCEPT !.pc = "b_st"])
    /\ UNCHANGED <<db, db_available, dirs, recent, appended, sessions, nextSid, files, store, heap, stats, now, up, opsLeft, builds, lastMut>>

\* build(): save_local fails, or self._store has become None (AttributeError).
BuildSaveRaises(t) ==
    /\ thr[t].pc = "b_save"
    /\ Raise(t)

\* build(): set_vector_store_stats(len(chunks), time.time()): data = _read_stats()
BuildStatsRead(t) ==
    /\ thr[t].pc = "b_st"
    /\ now' = now + 1
    /\ Set(t, [thr[t] EXCEPT !.pc = "b_st_w", !.data = ReadStats,
                             !.dc = thr[t].n, !.lrt = now'])
    /\ UNCHANGED <<db, db_available, dirs, recent, appended, sessions, nextSid, files, store, heap, disk, stats, up, opsLeft, builds, lastMut>>

\* build(): _write_stats(data); build returns.
BuildStatsWrite(t) ==
    /\ thr[t].pc = "b_st_w"
    /\ stats' = StatsToWrite(thr[t].data, thr[t].dc, thr[t].lrt)
    /\ Set(t, AfterBuild(thr[t]))
    /\ lastMut' = [Mutated("build") EXCEPT
                       !.built = IF store = None THEN <<>> ELSE heap[store].ids,
                       !.lrt = thr[t].lrt]
    /\ UNCHANGED <<db, db_available, dirs, recent, appended, sessions, nextSid, files, store, heap, disk, now, up, opsLeft, builds>>

BuildStatsWriteRaises(t) ==
    /\ thr[t].pc = "b_st_w"
    /\ Raise(t)

\* ------------------------------------------------- VectorStore.add_memory

\* add_memory(user_id, user_message, assistant_reply): the Document with
\* metadata source, timestamp = time.time(), user_id.
MemoryDocument(user_id, user_message, assistant_reply, ts, g) ==
    Document(MemoryText(user_message, assistant_reply), "conversation_memory",
             ts, user_id, g)

Running(t, method) == thr[t].in = method /\ thr[t].pc # "ret"

BeginAddMemory(t) ==
    /\ up = "up" /\ opsLeft > 0 /\ thr[t].pc = "idle"
    /\ now' = now + 1
    /\ \E u \in Users, m \in Msgs, r \in Replies :
        Set(t, [Fresh EXCEPT !.op = "add_memory", !.in = "add_memory",
                  !.pc = "en", !.ret = "am", !.user = u, !.q = m,
                  !.peer = \E o \in Threads \ {t} : Running(o, "add_memory"),
                  !.doc = MemoryDocument(u, m, r, now', builds)])
    /\ opsLeft' = opsLeft - 1
    /\ UNCHANGED <<db, db_available, dirs, recent, appended, sessions, nextSid, files, store, heap, disk, stats, up, builds, lastMut>>

\* if self._store is None: ... else: ...
AddCheck(t) ==
    /\ thr[t].pc = "am"
    /\ Goto(t, [thr[t] EXCEPT !.pc = IF store = None THEN "am_new" ELSE "am_ref"])

\* FAISS.from_documents([doc], self.embeddings)
AddNew(t) ==
    /\ thr[t].pc = "am_new"
    /\ Set(t, [thr[t] EXCEPT !.pc = "am_set", !.ref = NewId])
    /\ heap' = Collect([heap EXCEPT ![NewId] = Obj(Faiss(<<thr[t].doc>>))], store, thr')
    /\ UNCHANGED <<db, db_available, dirs, recent, appended, sessions, nextSid, files, store, disk, stats, now, up, opsLeft, builds, lastMut>>

AddNewRaises(t) ==
    /\ thr[t].pc = "am_new"
    /\ Raise(t)

\* self._store = FAISS.from_documents(...); then set_vector_store_stats(1, None)
AddAssign(t) ==
    /\ thr[t].pc = "am_set"
    /\ store' = thr[t].ref
    /\ Set(t, [thr[t] EXCEPT !.pc = "am_st_r", !.ref = None, !.dc = 1, !.lrt = None])
    /\ heap' = Collect(heap, store', thr')
    /\ lastMut' = Mutated("open")
    /\ UNCHANGED <<db, db_available, dirs, recent, appended, sessions, nextSid, files, disk, stats, now, up, opsLeft, builds>>

\* self._store.add_documents: the object self._store names now.
\* When another thread has set it to None meanwhile: AttributeError.
AddRef(t) ==
    /\ thr[t].pc = "am_ref"
    /\ IF store = None THEN Raise(t)
       ELSE Goto(t, [thr[t] EXCEPT !.pc = "am_add", !.ref = store])

\* add_documents: the text is embedded and index.add(vector) appends the vector.
AddIndex(t) ==
    /\ thr[t].pc = "am_add"
    /\ Set(t, [thr[t] EXCEPT !.pc = "am_map"])
    /\ heap' = [heap EXCEPT ![thr[t].ref].vecs = Append(@, thr[t].doc)]
    /\ lastMut' = Mutated("open")
    /\ UNCHANGED <<db, db_available, dirs, recent, appended, sessions, nextSid, files, store, disk, stats, now, up, opsLeft, builds>>

AddIndexRaises(t) ==
    /\ thr[t].pc = "am_add"
    /\ Raise(t)

\* add_documents: docstore.add and index_to_docstore_id[len(index_to_docstore_id)] = id.
AddMap(t) ==
    /\ thr[t].pc = "am_map"
    /\ Set(t, [thr[t] EXCEPT !.pc = "am_get", !.ref = None])
    /\ heap' = Collect([heap EXCEPT ![thr[t].ref].ids = Append(@, thr[t].doc)], store, thr')
    /\ UNCHANGED <<db, db_available, dirs, recent, appended, sessions, nextSid, files, store, disk, stats, now, up, opsLeft, builds, lastMut>>

\* stats = ops_state.get_vector_store_status()
AddGetStats(t) ==
    /\ thr[t].pc = "am_get"
    /\ Goto(t, [thr[t] EXCEPT !.pc = "am_st_r",
                              !.dc = ReadStats.vector_store_doc_count + 1,
                              !.lrt = ReadStats.last_rebuild_time])

\* set_vector_store_stats: data = _read_stats()
AddStatsRead(t) ==
    /\ thr[t].pc = "am_st_r"
    /\ Goto(t, [thr[t] EXCEPT !.pc = "am_st_w", !.data = ReadStats])

\* set_vector_store_stats: _write_stats(data)
AddStatsWrite(t) ==
    /\ thr[t].pc = "am_st_w"
    /\ stats' = StatsToWrite(thr[t].data, thr[t].dc, thr[t].lrt)
    /\ Set(t, [thr[t] EXCEPT !.pc = "am_save"])
    /\ UNCHANGED <<db, db_available, dirs, recent, appended, sessions, nextSid, files, store, heap, disk, now, up, opsLeft, builds, lastMut>>

AddStatsWriteRaises(t) ==
    /\ thr[t].pc = "am_st_w"
    /\ Raise(t)

\* self._store.save_local(...); add_memory returns.
AddSave(t) ==
    /\ thr[t].pc = "am_save"
    /\ store # None
    /\ disk' = Snapshot(heap[store])
    /\ Set(t, AfterAddMemory(thr[t], FALSE))
    /\ lastMut' = Mutated("add")
    /\ UNCHANGED <<db, db_available, dirs, recent, appended, sessions, nextSid, files, store, heap, stats, now, up, opsLeft, builds>>

\* save_local fails, or self._store has become None (AttributeError).
AddSaveRaises(t) ==
    /\ thr[t].pc = "am_save"
    /\ Raise(t)

\* ------------------------------- VectorStore.get_memory_context_for_query

BeginGetContextOver(t, ks) ==
    /\ up = "up" /\ opsLeft > 0 /\ thr[t].pc = "idle"
    /\ \E u \in Users, query \in Msgs, k \in ks :
        Set(t, [Fresh EXCEPT !.op = "get_context", !.in = "get_context",
                  !.pc = "en", !.ret = "gc", !.user = u, !.q = query, !.k = k])
    /\ opsLeft' = opsLeft - 1
    /\ UNCHANGED <<db, db_available, dirs, recent, appended, sessions, nextSid, files, store, heap, disk, stats, now, up, builds, lastMut>>

BeginGetContext(t) == BeginGetContextOver(t, Ks)

\* if self._store is None: return ""
ContextCheckDefault(t) ==
    /\ thr[t].pc = "gc"
    /\ Goto(t, IF store = None THEN AfterContext(thr[t], <<NoDoc>>)
               ELSE [thr[t] EXCEPT !.pc = "gc_s"])
ContextCheck(t) ==
    /\ thr[t].pc = "gc"
    /\ Goto(t, IF store = None THEN AfterContext(thr[t], <<>>)
               ELSE [thr[t] EXCEPT !.pc = "gc_s"])

\* docs = self._store.similarity_search(query, k=min(k * 2, 12)), then the
\* partition, the sort and the composition of the result.
ContextSearch(t) ==
    /\ thr[t].pc = "gc_s"
    /\ store # None
    /\ ~SearchRaises(heap[store], thr[t].q, FetchLimit(thr[t].k))
    /\ LET docs == SearchDocs(heap[store], thr[t].q, FetchLimit(thr[t].k))
       IN  Goto(t, AfterContext([thr[t] EXCEPT !.cands = docs],
                                Ordered(docs, thr[t].user, thr[t].k)))

\* Line 134 raises: embedding the query fails; the search raises (k = 0, or a
\* KeyError on a position whose document another thread has not stored yet); or
\* self._store has become None (AttributeError).
ContextSearchRaises(t) ==
    /\ thr[t].pc = "gc_s"
    /\ Goto(t, Raised([thr[t] EXCEPT !.partial =
                 store # None /\ HitsUnmapped(heap[store], thr[t].q, FetchLimit(thr[t].k))]))

\* ------------------------------------------ VectorStore.similarity_search

BeginSimilaritySearch(t) ==
    /\ up = "up" /\ opsLeft > 0 /\ thr[t].pc = "idle"
    /\ \E query \in Msgs, k \in Ks \ {0} :
        Set(t, [Fresh EXCEPT !.op = "similarity_search", !.in = "similarity_search",
                  !.pc = "en", !.ret = "ss", !.q = query, !.k = k])
    /\ opsLeft' = opsLeft - 1
    /\ UNCHANGED <<db, db_available, dirs, recent, appended, sessions, nextSid, files, store, heap, disk, stats, now, up, builds, lastMut>>

\* if self._store is None: return []
SearchCheck(t) ==
    /\ thr[t].pc = "ss"
    /\ Goto(t, IF store = None THEN [thr[t] EXCEPT !.pc = "ret", !.out = "ok"]
               ELSE [thr[t] EXCEPT !.pc = "ss_s"])

\* return self._store.similarity_search(query, k=k)
SearchRun(t) ==
    /\ thr[t].pc = "ss_s"
    /\ store # None
    /\ ~SearchRaises(heap[store], thr[t].q, thr[t].k)
    /\ Goto(t, [thr[t] EXCEPT !.pc = "ret", !.out = "ok",
                              !.docs = SearchDocs(heap[store], thr[t].q, thr[t].k)])

\* Embedding the query fails, the search raises, or self._store has become None.
SearchRunRaises(t) ==
    /\ thr[t].pc = "ss_s"
    /\ Goto(t, Raised([thr[t] EXCEPT !.partial =
                 store # None /\ HitsUnmapped(heap[store], thr[t].q, thr[t].k)]))

\* ---------------------------------------------- VectorStore.get_retriever

BeginGetRetriever(t) ==
    /\ up = "up" /\ opsLeft > 0 /\ thr[t].pc = "idle"
    /\ \E k \in Ks \ {0} :
        Set(t, [Fresh EXCEPT !.op = "get_retriever", !.in = "get_retriever",
                  !.pc = "en", !.ret = "gr", !.k = k])
    /\ opsLeft' = opsLeft - 1
    /\ UNCHANGED <<db, db_available, dirs, recent, appended, sessions, nextSid, files, store,
                   heap, disk, stats, now, up, builds, lastMut>>

\* if self._store is None: return None; else the retriever over the index.
RetrieverCheck(t) ==
    /\ thr[t].pc = "gr"
    /\ Goto(t, [thr[t] EXCEPT !.pc = "ret",
                              !.out = IF store = None THEN "none" ELSE "retriever"])

RetrieverStep(t) == BeginGetRetriever(t) \/ RetrieverCheck(t)

\* ------------------------------------------------------ VectorStore.load

\* load() called on the instance directly.
BeginLoad(t) ==
    /\ up = "up" /\ opsLeft > 0 /\ thr[t].pc = "idle"
    /\ Set(t, [Fresh EXCEPT !.op = "load", !.in = "load", !.pc = "ld", !.ret = "ret"])
    /\ opsLeft' = opsLeft - 1
    /\ UNCHANGED <<db, db_available, dirs, recent, appended, sessions, nextSid, files, store, heap, disk, stats, now, up, builds, lastMut>>

\* ------------------------------------------------ POST /rebuild, lifespan

\* rebuild: chat_svc.rebuild_vector_store() -> self.vector_store.build()
BeginRebuild(t) ==
    /\ up = "up" /\ opsLeft > 0 /\ thr[t].pc = "idle"
    /\ Set(t, [Fresh EXCEPT !.op = "rebuild", !.in = "build", !.pc = "b",
                                 !.ret = "ret"])
    /\ opsLeft' = opsLeft - 1
    /\ UNCHANGED <<db, db_available, dirs, recent, appended, sessions, nextSid, files, store, heap, disk, stats, now, up, builds, lastMut>>

\* lifespan: chat_svc.vector_store.load() or chat_svc.vector_store.build()
BeginLifespan ==
    /\ up = "boot" /\ thr["t1"].pc = "idle"
    /\ up' = "starting"
    /\ Set("t1", [Fresh EXCEPT !.op = "lifespan", !.in = "lifespan", !.pc = "ld",
                                    !.ret = "ret"])
    /\ UNCHANGED <<db, db_available, dirs, recent, appended, sessions, nextSid, files, store, heap, disk, stats, now, opsLeft, builds, lastMut>>

\* The operation returns to its caller; the application serves once lifespan has
\* yielded, and exits when lifespan raised.
Return(t) ==
    /\ thr[t].pc = "ret"
    /\ Set(t, IdleThread)
    /\ up' = IF thr[t].op # "lifespan" THEN up
             ELSE IF thr[t].out = "ok" THEN "up" ELSE "down"
    /\ store' = IF thr[t].op = "lifespan" /\ thr[t].out # "ok" THEN None ELSE store
    /\ heap' = Collect(heap, store', thr')
    /\ UNCHANGED <<db, db_available, dirs, recent, appended, sessions, nextSid, files, disk, stats, now, opsLeft, builds, lastMut>>

\* ------------------------------------------------------------ environment

\* The operator adds, edits or removes a file of learning_data.  An edit commutes
\* with every step but build's read of the directory, so it is taken between
\* requests or right before such a read.
SetFile ==
    /\ opsLeft > 0
    /\ \/ \A t \in Threads : thr[t].pc = "idle"
       \/ \E t \in Threads : thr[t].pc = "b"
    /\ \E f \in Files, s \in FileStates :
        /\ files[f] # s
        /\ files' = [files EXCEPT ![f] = s]
    /\ opsLeft' = opsLeft - 1
    /\ UNCHANGED <<db, db_available, dirs, recent, appended, sessions, nextSid, store, heap, disk, stats, thr, now, up, builds, lastMut>>

\* The process is restarted: a new VectorStore, self._store = None; disk is kept.
\* No build has completed in the new process.
Restart ==
    /\ up \in {"up", "down"} /\ opsLeft > 0
    /\ \A t \in Threads : thr[t].pc = "idle"
    /\ up' = "boot"
    /\ store' = None
    /\ heap' = [i \in ObjIds |-> NoObj]
    /\ opsLeft' = opsLeft - 1
    /\ lastMut' = [NoHistory EXCEPT !.built = lastMut.built, !.lrt = lastMut.lrt]
    /\ UNCHANGED <<db, db_available, dirs, recent, appended, sessions, nextSid, files, disk, stats, thr, now, builds>>

\* ---------------------------------------------- FileChatSessionRepository

Message(role, content) == [role |-> role, content |-> content]

\* Session-id strings.  A uuid is named by its number n; n + UpBase * u names the
\* string "../{u}/{n}", which a client may send as session_id just as well.
UpBase == 100
UpId(u, n) == UpBase * u + n
IsUp(session_id) == session_id >= UpBase

\* self._base / str(user_id) / f"{session_id}.json", as the file system resolves it:
\* <<directory, name>>.  "../{u}/{n}.json" under chats_data/{user_id} is the file
\* chats_data/{u}/{n}.json.
ChatFile(user_id, session_id) ==
    IF IsUp(session_id) THEN <<session_id \div UpBase, session_id % UpBase>>
    ELSE <<user_id, session_id>>

\* self._chat_file(user_id, session_id).exists(): a path through ".." is found only
\* when the directory it passes through, chats_data/{user_id}, exists.
ChatFileExists(user_id, session_id) ==
    /\ IsUp(session_id) => user_id \in dirs
    /\ ChatFile(user_id, session_id) \in DOMAIN sessions

\* get_or_create_session_id: the id given when its file exists, else a new uuid.
GetOrCreateSessionId(user_id, session_id) ==
    IF session_id # None /\ ChatFileExists(user_id, session_id) THEN session_id
    ELSE nextSid

\* get_history: the messages of the file, [] when there is none.
GetHistory(user_id, session_id) ==
    IF ChatFileExists(user_id, session_id) THEN sessions[ChatFile(user_id, session_id)]
    ELSE <<>>

\* append_message: path.parent.mkdir(parents=True, exist_ok=True) creates every
\* missing directory the path names, chats_data/{user_id} included.
MkDirs(user_id, session_id) == dirs \cup {user_id, ChatFile(user_id, session_id)[1]}

\* append_message after its get_history: the file is rewritten with history + [message].
WriteChatFileLastOnly(user_id, session_id, history) ==
    LET path == ChatFile(user_id, session_id)
    IN  IF path \in DOMAIN sessions
        THEN [sessions EXCEPT ![path] = <<history[Len(history)]>>]
        ELSE sessions @@ (path :> <<history[Len(history)]>>)
WriteChatFile(user_id, session_id, history) ==
    LET path == ChatFile(user_id, session_id)
    IN  IF path \in DOMAIN sessions
        THEN [sessions EXCEPT ![path] = history]
        ELSE sessions @@ (path :> history)

\* The file written now has the latest st_mtime.
Touch(path) == <<path>> \o SelectSeq(recent, LAMBDA q : q # path)

\* list_sessions: the *.json files of the user's directory, newest first; total is
\* their number, and the slice [offset : offset + limit] is summarised.
Slice(s, offset, limit) ==
    IF offset >= Len(s) THEN <<>> ELSE SubSeq(s, offset + 1, Min(Len(s), offset + limit))
SessionSummary(path) ==
    [session_id |-> path[2], message_count |-> Len(sessions[path]),
     preview |-> IF sessions[path] = <<>> THEN None ELSE sessions[path][1].content]
ListSessions(user_id, limit, offset) ==
    LET all_files == SelectSeq(recent, LAMBDA q : q[1] = user_id)
        page == Slice(all_files, offset, limit)
    IN  IF user_id \notin dirs THEN [items |-> <<>>, total |-> 0]
        ELSE [items |-> [i \in 1..Len(page) |-> SessionSummary(page[i])],
              total |-> Len(all_files)]

\* ------------------------- ChatService.chat_general and chat_realtime

\* stored_context = self.vector_store.get_memory_context_for_query(message, user_id, k=6)
ChatK == 6

Chats == {"chat_general", "chat_realtime"}

ChatStep(t, rec) ==
    /\ Set(t, rec)
    /\ UNCHANGED <<db, db_available, dirs, recent, appended, sessions, nextSid, files, store, heap, disk, stats, now, up, opsLeft,
                   builds, lastMut>>

BeginChat(t) ==
    /\ up = "up" /\ opsLeft > 0 /\ thr[t].pc = "idle"
    /\ \E mode \in Chats, u \in Users, s \in {None} \cup 1..(nextSid - 1), m \in Msgs :
        Set(t, [Fresh EXCEPT !.op = mode, !.pc = "ch_sid", !.user = u, !.sid = s,
                                  !.csid = s, !.q = m, !.k = ChatK])
    /\ opsLeft' = opsLeft - 1
    /\ UNCHANGED <<db, db_available, dirs, recent, appended, sessions, nextSid, files, store, heap, disk, stats, now, up, builds,
                   lastMut>>

\* session_id = self.get_or_create_session_id(user_id, session_id); then the call
\* of get_memory_context_for_query begins.
ChatSessionId(t) ==
    /\ thr[t].pc = "ch_sid"
    /\ LET sid == GetOrCreateSessionId(thr[t].user, thr[t].sid)
       IN  /\ Set(t, [thr[t] EXCEPT !.sid = sid, !.in = "get_context", !.pc = "en",
                                    !.ret = "gc"])
           /\ nextSid' = IF sid = nextSid THEN nextSid + 1 ELSE nextSid
    /\ UNCHANGED <<db, db_available, dirs, recent, appended, sessions, files, store, heap, disk, stats, now, up, opsLeft, builds,
                   lastMut>>

\* history = self.get_history(user_id, session_id)
ChatHistory(t) ==
    /\ thr[t].pc = "ch_hist"
    /\ ChatStep(t, [thr[t] EXCEPT !.pc = "ch_llm",
                                  !.hist = GetHistory(thr[t].user, thr[t].sid),
                                  !.hist0 = GetHistory(thr[t].user, thr[t].sid)])

\* reply = GroqService.chat_general(...) / RealtimeService.chat(...)
ChatLLM(t) ==
    /\ thr[t].pc = "ch_llm"
    /\ \E r \in Replies :
        ChatStep(t, [thr[t] EXCEPT !.pc = "ch_a1r", !.reply = r, !.hist = <<>>])

\* The LLM call raises: neither method catches it.
ChatLLMRaises(t) ==
    /\ thr[t].pc = "ch_llm"
    /\ ChatStep(t, [thr[t] EXCEPT !.pc = "ret", !.out = "raised", !.exc = TRUE,
                                  !.hist = <<>>])

\* append_message: history = self.get_history(user_id, session_id)
ChatAppendRead(t) ==
    /\ thr[t].pc \in {"ch_a1r", "ch_a2r"}
    /\ ChatStep(t, [thr[t] EXCEPT !.pc = IF thr[t].pc = "ch_a1r" THEN "ch_a1w" ELSE "ch_a2w",
                                  !.hist = GetHistory(thr[t].user, thr[t].sid)])

\* append_message: history.append({"role": ..., "content": ...}); the directories
\* are made and the file is written.
ChatAppendWrite(t) ==
    /\ thr[t].pc \in {"ch_a1w", "ch_a2w"}
    /\ LET message == IF thr[t].op = "append_message" THEN Message(thr[t].role, thr[t].q)
                      ELSE IF thr[t].pc = "ch_a1w" THEN Message("user", thr[t].q)
                      ELSE Message("assistant", thr[t].reply)
       IN  sessions' = WriteChatFile(thr[t].user, thr[t].sid, Append(thr[t].hist, message))
    /\ dirs' = MkDirs(thr[t].user, thr[t].sid)
    /\ recent' = Touch(ChatFile(thr[t].user, thr[t].sid))
    /\ LET call == <<thr[t].user, thr[t].sid>>
           message == IF thr[t].op = "append_message" THEN Message(thr[t].role, thr[t].q)
                      ELSE IF thr[t].pc = "ch_a1w" THEN Message("user", thr[t].q)
                      ELSE Message("assistant", thr[t].reply)
       IN  appended' = IF call \in DOMAIN appended
                       THEN [appended EXCEPT ![call] = Append(@, message)]
                       ELSE appended @@ (call :> <<message>>)
    /\ Set(t, [thr[t] EXCEPT !.pc = IF thr[t].op = "append_message" THEN "ret"
                                    ELSE IF thr[t].pc = "ch_a1w" THEN "ch_a2r"
                                    ELSE IF thr[t].tool = "reminder" THEN "ch_ret"
                                    ELSE "ch_mem",
                             !.out = IF thr[t].op = "append_message" THEN "ok" ELSE @,
                             !.hist = <<>>])
    /\ UNCHANGED <<db, db_available, nextSid, files, store, heap, disk, stats, now, up,
                   opsLeft, builds, lastMut>>

\* Writing the file fails.  chat_general: except Exception: logger.warning, and the
\* reply is returned; chat_realtime does not catch it, nor does
\* _try_create_reminder_from_chat.
ChatAppendRaises(t) ==
    /\ thr[t].pc \in {"ch_a1w", "ch_a2w"}
    /\ ChatStep(t, IF thr[t].op = "chat_general" /\ thr[t].tool # "reminder"
                   THEN [thr[t] EXCEPT !.pc = "ch_ret", !.exc = TRUE, !.hist = <<>>,
                                       !.appfail = TRUE]
                   ELSE [thr[t] EXCEPT !.pc = "ret", !.out = "raised", !.exc = TRUE,
                                       !.hist = <<>>, !.appfail = TRUE])

\* self._save_to_memory(user_id, message, reply): add_memory begins.
ChatSaveMemory(t) ==
    /\ thr[t].pc = "ch_mem"
    /\ now' = now + 1
    /\ Set(t, [thr[t] EXCEPT !.in = "add_memory", !.pc = "en", !.ret = "am",
                 !.peer = \E o \in Threads \ {t} : Running(o, "add_memory"),
                 !.doc = MemoryDocument(thr[t].user, thr[t].q, thr[t].reply, now', builds)])
    /\ UNCHANGED <<db, db_available, dirs, recent, appended, sessions, nextSid, files, store, heap, disk, stats, up, opsLeft, builds,
                   lastMut>>

\* return reply
ChatReturn(t) ==
    /\ thr[t].pc = "ch_ret"
    /\ ChatStep(t, [thr[t] EXCEPT !.pc = "ret", !.out = "ok", !.rv = thr[t].reply])

\* ------------------------- POST /chat/general and POST /chat/realtime

\* main.py's db_available: `from app.db import db_available` binds the value the
\* module has at import, True; init_db() assigning app.db.db_available later does
\* not change this name.
MainDbAvailable == TRUE

\* in_minutes of a parsed reminder request.
InMinutes == 1

\* create_reminder: INSERT INTO reminders (...) VALUES (..., 'pending')
CreateReminder(user_id, message, run_at) ==
    [db EXCEPT !.reminders = Append(@, [id |-> Len(@) + 1, user_id |-> user_id,
                                        message |-> message, run_at |-> run_at,
                                        status |-> "pending"])]

\* The request arrives: body.session_id, body.message, and whether
\* parse_reminder_intent(body.message) finds a reminder request in it.
BeginChatEndpoint(t) ==
    /\ up = "up" /\ opsLeft > 0 /\ thr[t].pc = "idle"
    /\ \E mode \in Chats, u \in Users, s \in {None} \cup 1..(nextSid - 1), m \in Msgs,
          i \in BOOLEAN :
        Set(t, [Fresh EXCEPT !.op = mode, !.pc = "ep_sid", !.user = u, !.sid = s,
                             !.csid = s, !.q = m, !.k = ChatK, !.intent = i,
                             !.tool = "unset"])
    /\ opsLeft' = opsLeft - 1
    /\ UNCHANGED <<db, db_available, dirs, recent, appended, sessions, nextSid, files,
                   store, heap, disk, stats, now, up, builds, lastMut>>

\* session_id = chat_svc.get_or_create_session_id(current_user["id"], body.session_id):
\* the id every ChatResponse of this request carries.
EndpointSessionId(t) ==
    /\ thr[t].pc = "ep_sid"
    /\ LET sid == GetOrCreateSessionId(thr[t].user, thr[t].sid)
       IN  /\ Set(t, [thr[t] EXCEPT !.sid = sid, !.rsid = sid, !.pc = "ep_rem"])
           /\ nextSid' = IF sid = nextSid THEN nextSid + 1 ELSE nextSid
    /\ UNCHANGED <<db, db_available, dirs, recent, appended, sessions, files, store, heap,
                   disk, stats, now, up, opsLeft, builds, lastMut>>

\* _try_create_reminder_from_chat: None when the message is no reminder request;
\* else the reminder is inserted and the two append_message calls follow.  When it
\* returns None the handler calls chat_svc.chat_general / chat_realtime with
\* session_id.
EndpointTryReminder(t) ==
    /\ thr[t].pc = "ep_rem"
    /\ IF thr[t].intent /\ MainDbAvailable
       THEN /\ db' = CreateReminder(thr[t].user, thr[t].q, now + InMinutes)
            /\ \E r \in Replies :
                 Set(t, [thr[t] EXCEPT !.pc = "ch_a1r", !.tool = "reminder", !.reply = r])
       ELSE /\ db' = db
            /\ Set(t, [thr[t] EXCEPT !.pc = "ch_sid", !.tool = "llm answer"])
    /\ UNCHANGED <<db_available, dirs, recent, appended, sessions, nextSid, files, store,
                   heap, disk, stats, now, up, opsLeft, builds, lastMut>>

\* create_reminder raises: except Exception: return None.
EndpointCreateReminderRaises(t) ==
    /\ thr[t].pc = "ep_rem" /\ thr[t].intent /\ MainDbAvailable
    /\ ChatStep(t, [thr[t] EXCEPT !.pc = "ch_sid", !.tool = "llm answer"])

\* ------------------- calls of the repository (ChatService delegates them)

\* The session_id strings a client can send: the uuids handed out so far and the
\* "../{u}/{n}" strings over them.
SessionIds == (1..(nextSid - 1)) \cup {UpId(u, n) : u \in Users, n \in 1..(nextSid - 1)}

\* limit and offset of GET /chats/sessions.
Limits == {1, 50}
Offsets == {0, 1}
Roles == {"user", "assistant"}

RepoCall(t, rec) ==
    /\ opsLeft > 0 /\ thr[t].pc = "idle"
    /\ Set(t, rec)
    /\ opsLeft' = opsLeft - 1
    /\ UNCHANGED <<db, db_available, dirs, recent, appended, sessions, files, store, heap, disk, stats, now,
                   up, builds, lastMut>>

\* get_or_create_session_id(user_id, session_id)
CallGetOrCreateSessionId(t) ==
    \E u \in Users, s \in {None} \cup SessionIds :
        LET sid == GetOrCreateSessionId(u, s)
        IN  /\ RepoCall(t, [Fresh EXCEPT !.op = "get_or_create_session_id", !.pc = "ret",
                                         !.out = "ok", !.user = u, !.csid = s, !.sid = sid])
            /\ nextSid' = IF sid = nextSid THEN nextSid + 1 ELSE nextSid

\* get_history(user_id, session_id)
CallGetHistory(t) ==
    /\ \E u \in Users, s \in SessionIds :
        RepoCall(t, [Fresh EXCEPT !.op = "get_history", !.pc = "ret", !.out = "ok",
                                  !.user = u, !.csid = s, !.sid = s,
                                  !.hist = GetHistory(u, s)])
    /\ UNCHANGED nextSid

\* list_sessions(user_id, limit, offset)
CallListSessions(t) ==
    /\ \E u \in Users, limit \in Limits, offset \in Offsets :
        RepoCall(t, [Fresh EXCEPT !.op = "list_sessions", !.pc = "ret", !.out = "ok",
                                  !.user = u, !.k = limit, !.n = offset,
                                  !.items = ListSessions(u, limit, offset).items,
                                  !.total = ListSessions(u, limit, offset).total])
    /\ UNCHANGED nextSid

\* append_message(user_id, session_id, role, content) begins.  Its callers pass the
\* id get_or_create_session_id returned: a uuid, or the client's string when that
\* names an existing file.
CallAppendMessage(t) ==
    /\ \E u \in Users, s \in SessionIds, role \in Roles, content \in Msgs :
        /\ IsUp(s) => ChatFileExists(u, s)
        /\ RepoCall(t, [Fresh EXCEPT !.op = "append_message", !.pc = "ch_a1r",
                                     !.user = u, !.csid = s, !.sid = s, !.role = role,
                                     !.q = content, !.hist0 = GetHistory(u, s)])
    /\ UNCHANGED nextSid

RepositoryStep(t) ==
    \/ CallGetOrCreateSessionId(t) \/ CallGetHistory(t) \/ CallListSessions(t)
    \/ CallAppendMessage(t)
    \/ ChatAppendRead(t) \/ ChatAppendWrite(t) \/ ChatAppendRaises(t)
    \/ Return(t)

\* ------------------------------------ POST /auth/register and get_current_user

\* Email strings a client sends, as sequences of characters.
RawEmails == {<<"a">>, <<"A">>, <<"a", " ">>, <<" ", "A">>, <<"b">>, <<" ">>}
\* body.name
Names == {<<"N", " ">>}

\* str.strip() and str.lower()
RECURSIVE LStrip(_)
LStrip(s) == IF s # <<>> /\ Head(s) = " " THEN LStrip(Tail(s)) ELSE s
RECURSIVE RStrip(_)
RStrip(s) == IF s # <<>> /\ s[Len(s)] = " " THEN RStrip(SubSeq(s, 1, Len(s) - 1)) ELSE s
Strip(s) == RStrip(LStrip(s))
LowerChar(c) == IF c = "A" THEN "a" ELSE IF c = "N" THEN "n" ELSE c
Lower(s) == [i \in 1..Len(s) |-> LowerChar(s[i])]

\* str(user_id) and int(user_id), over decimal digits.
StrOf(n) == IF n < 10 THEN <<n>> ELSE <<n \div 10, n % 10>>
IntOf(s) == IF Len(s) = 1 THEN s[1] ELSE 10 * s[1] + s[2]

\* config.JWT_EXPIRE_MINUTES; the clock counts minutes here.
JWT_EXPIRE_MINUTES == 10080

\* get_settings().admin_emails
AdminEmails == {<<"A">>}

\* A request's Authorization header: missing, "Bearer" with nothing after it, or a
\* bearer token.  A token is signed with config.JWT_SECRET or with another key, or is
\* no JWT at all; it carries a subject and an expiry.
NoToken == [header |-> "none", sub |-> <<>>, exp |-> 0, key |-> "none"]
EmptyToken == [NoToken EXCEPT !.header = "empty"]

\* create_access_token(subject)
CreateAccessToken(subject) ==
    [header |-> "bearer", sub |-> subject, exp |-> now + JWT_EXPIRE_MINUTES,
     key |-> "JWT_SECRET"]

\* The tokens a client can present: those create_access_token has signed for a user
\* id (expired, at their last valid minute, or fresh), the same signed with another
\* key, and strings that are no JWT.
Credentials ==
    {NoToken, EmptyToken, [NoToken EXCEPT !.header = "bearer", !.key = "malformed"]}
    \cup [header : {"bearer"}, sub : {StrOf(i) : i \in 1..MaxAuthOps},
          exp : {now - 1, now, now + JWT_EXPIRE_MINUTES}, key : {"JWT_SECRET", "other"}]

\* decode_token: the subject of a token whose signature and expiry verify; None, here
\* the empty string (the caller tests `if not user_id`), for any other.
DecodeTokenNoExpiry(token) ==
    IF token.key # "JWT_SECRET" THEN <<>> ELSE token.sub
DecodeToken(token) ==
    IF token.key # "JWT_SECRET" \/ token.exp < now THEN <<>> ELSE token.sub

\* SELECT ... FROM users WHERE email = %s / WHERE id = %s: the matching row ids.
UsersByEmail(email) ==
    {i \in DOMAIN db.users : db.users[i].email = Lower(Strip(email))}
GetUserById(user_id) == {i \in DOMAIN db.users : i = user_id}

\* INSERT INTO users: the UNIQUE key on email rejects a second row.
InsertRejectedNever(email) == FALSE
InsertRejected(email) == UsersByEmail(email) # {}
CreateUser(email, password_hash, name) ==
    [db EXCEPT !.users = @ @@ (db.next_user_id :>
                    [id |-> db.next_user_id, email |-> Lower(Strip(email)),
                     password_hash |-> password_hash, name |-> Strip(name)]),
               !.next_user_id = @ + 1]

AuthStep(t, rec) ==
    /\ Set(t, rec)
    /\ UNCHANGED <<db, db_available, dirs, recent, appended, sessions, nextSid, files, store,
                   heap, disk, stats, now, up, opsLeft, builds, lastMut>>

\* register begins: 503 when main.py's db_available is false, 400 for an email that
\* is blank.
BeginRegister(t) ==
    /\ opsLeft > 0 /\ thr[t].pc = "idle"
    /\ \E raw \in RawEmails, name \in Names :
        LET req == [Fresh EXCEPT !.op = "register", !.email = Lower(Strip(raw)),
                                 !.name = name,
                                 !.existed = UsersByEmail(raw) # {}]
        IN  Set(t, IF ~MainDbAvailable THEN [req EXCEPT !.pc = "ret", !.out = "503"]
                   ELSE IF req.email = <<>> THEN [req EXCEPT !.pc = "ret", !.out = "400"]
                   ELSE [req EXCEPT !.pc = "rg_get"])
    /\ opsLeft' = opsLeft - 1
    /\ UNCHANGED <<db, db_available, dirs, recent, appended, sessions, nextSid, files, store,
                   heap, disk, stats, now, up, builds, lastMut>>

\* existing = user_repo.get_by_email(email); 400 when there is one.
RegisterGetByEmail(t) ==
    /\ thr[t].pc = "rg_get"
    /\ AuthStep(t, IF UsersByEmail(thr[t].email) # {}
                   THEN [thr[t] EXCEPT !.pc = "ret", !.out = "400"]
                   ELSE [thr[t] EXCEPT !.pc = "rg_ins"])

\* user_id = user_repo.create(...): the INSERT raises on a duplicate, which is
\* answered with 400; else the token is made and returned with the user.
RegisterCreate(t) ==
    /\ thr[t].pc = "rg_ins"
    /\ IF InsertRejected(thr[t].email)
       THEN /\ Set(t, [thr[t] EXCEPT !.pc = "ret", !.out = "400", !.exc = TRUE])
            /\ UNCHANGED db
       ELSE /\ db' = CreateUser(thr[t].email, "hash", thr[t].name)
            /\ Set(t, [thr[t] EXCEPT !.pc = "ret", !.out = "200",
                         !.uid = db.next_user_id,
                         !.token = CreateAccessToken(StrOf(db.next_user_id)),
                         !.account = [id |-> db.next_user_id, email |-> thr[t].email,
                                      name |-> Strip(thr[t].name), is_admin |-> FALSE]])
    /\ UNCHANGED <<db_available, dirs, recent, appended, sessions, nextSid, files, store,
                   heap, disk, stats, now, up, opsLeft, builds, lastMut>>

\* get_current_user(credentials, user_repo): 401 without credentials, for a token
\* that does not decode, and for a subject the users table does not hold.
UserFound(user_id) == GetUserById(user_id) # {}
GetCurrentUser(th, credentials) ==
    LET user_id == DecodeToken(credentials)
        user == db.users[IntOf(user_id)]
    IN  IF credentials.header \in {"none", "empty"} THEN [th EXCEPT !.out = "401"]
        ELSE IF user_id = <<>> THEN [th EXCEPT !.out = "401"]
        ELSE IF ~UserFound(IntOf(user_id)) THEN [th EXCEPT !.out = "401"]
        ELSE [th EXCEPT !.out = "200",
                        !.account = [id |-> user.id, email |-> user.email,
                                     name |-> user.name,
                                     is_admin |-> \E e \in AdminEmails :
                                                    Lower(e) = Lower(user.email)]]

\* A request to an endpoint that depends on get_current_user (GET /me).
CallGetCurrentUser(t) ==
    /\ opsLeft > 0 /\ thr[t].pc = "idle"
    /\ \E credentials \in Credentials :
        Set(t, GetCurrentUser([Fresh EXCEPT !.op = "get_current_user", !.pc = "ret",
                                            !.token = credentials], credentials))
    /\ opsLeft' = opsLeft - 1
    /\ UNCHANGED <<db, db_available, dirs, recent, appended, sessions, nextSid, files, store,
                   heap, disk, stats, now, up, builds, lastMut>>

\* The clock moves on.
TimePasses ==
    /\ opsLeft > 0
    /\ now' = now + 1
    /\ opsLeft' = opsLeft - 1
    /\ UNCHANGED <<db, db_available, dirs, recent, appended, sessions, nextSid, files, store,
                   heap, disk, stats, thr, up, builds, lastMut>>

AuthenticationStep(t) ==
    \/ BeginRegister(t) \/ RegisterGetByEmail(t) \/ RegisterCreate(t)
    \/ CallGetCurrentUser(t)
    \/ Return(t)

\* ------------------------------------ reminder_worker._process_due_reminders

\* ORDER BY run_at: rows of equal run_at stay in insertion order.
RECURSIVE SortByRunAt(_)
SortByRunAt(rows) ==
    IF rows = <<>> THEN <<>>
    ELSE LET rest == SortByRunAt(Tail(rows))
             x == Head(rows)
             sooner == SelectSeq(rest, LAMBDA r : r.run_at < x.run_at)
             later == SelectSeq(rest, LAMBDA r : r.run_at >= x.run_at)
         IN  sooner \o <<x>> \o later

\* get_due_reminders: SELECT id, user_id, message, run_at ... WHERE status = 'pending'
\* AND run_at <= UTC_TIMESTAMP() ORDER BY run_at
GetDueReminders ==
    LET rows == SortByRunAt(SelectSeq(db.reminders,
                    LAMBDA r : r.status = "pending" /\ r.run_at <= now))
    IN  [i \in 1..Len(rows) |-> [id |-> rows[i].id, user_id |-> rows[i].user_id,
                                 message |-> rows[i].message, run_at |-> rows[i].run_at]]

\* UPDATE reminders SET status = ... WHERE id = reminder_id
MarkReminder(reminder_id, status) ==
    [db EXCEPT !.reminders = [i \in 1..Len(@) |->
                                 IF @[i].id = reminder_id THEN [@[i] EXCEPT !.status = status]
                                 ELSE @[i]]]
MarkReminderSent(reminder_id) == MarkReminder(reminder_id, "sent")
MarkReminderFailed(reminder_id) == MarkReminder(reminder_id, "failed")

\* create_notification(user_id, "Reminder", message, source="reminder"); reminder
\* is history: the reminder the row was created for.
CreateNotification(user_id, body, reminder_id) ==
    [db EXCEPT !.notifications = Append(@, [id |-> Len(@) + 1, user_id |-> user_id,
                                            title |-> "Reminder", body |-> body,
                                            source |-> "reminder",
                                            reminder |-> reminder_id])]

ReminderStep(t, rec, newdb) ==
    /\ Set(t, rec)
    /\ db' = newdb
    /\ UNCHANGED <<db_available, dirs, recent, appended, sessions, nextSid, files, store,
                   heap, disk, stats, now, up, opsLeft, builds, lastMut>>

\* A reminder is stored (create_reminder, from a chat request or POST /reminders).
CallCreateReminder(t) ==
    /\ opsLeft > 0 /\ thr[t].pc = "idle" /\ db_available
    /\ \E u \in Users, m \in Msgs :
        /\ db' = CreateReminder(u, m, now + InMinutes)
        /\ Set(t, [Fresh EXCEPT !.op = "create_reminder", !.pc = "ret", !.out = "ok",
                                !.user = u, !.q = m])
    /\ opsLeft' = opsLeft - 1
    /\ UNCHANGED <<db_available, dirs, recent, appended, sessions, nextSid, files, store,
                   heap, disk, stats, now, up, builds, lastMut>>

\* _process_due_reminders is called: by _run_loop in the worker thread or by
\* internal_process_reminders in a handler thread.
BeginProcessDueReminders(t) ==
    /\ opsLeft > 0 /\ thr[t].pc = "idle"
    /\ Set(t, [Fresh EXCEPT !.op = "process_due_reminders", !.pc = "pr_due"])
    /\ opsLeft' = opsLeft - 1
    /\ UNCHANGED <<db, db_available, dirs, recent, appended, sessions, nextSid, files,
                   store, heap, disk, stats, now, up, builds, lastMut>>

\* from app.db import db_available; if not db_available: return; due = get_due_reminders()
ProcessGetDue(t) ==
    /\ thr[t].pc = "pr_due"
    /\ ReminderStep(t, IF db_available
                       THEN [thr[t] EXCEPT !.pc = "pr_for", !.items = GetDueReminders]
                       ELSE [thr[t] EXCEPT !.pc = "ret", !.out = "ok"],
                    db)

\* for r in due: nid = create_notification(...); the loop ends after the last row.
ProcessCreateNotification(t) ==
    /\ thr[t].pc = "pr_for"
    /\ IF thr[t].items = <<>>
       THEN ReminderStep(t, [thr[t] EXCEPT !.pc = "ret", !.out = "ok"], db)
       ELSE LET r == Head(thr[t].items)
            IN  ReminderStep(t, [thr[t] EXCEPT !.pc = "pr_sent"],
                             CreateNotification(r.user_id, r.message, r.id))

\* create_notification raises: except Exception: mark_reminder_failed(rid).
ProcessCreateNotificationRaises(t) ==
    /\ thr[t].pc = "pr_for" /\ thr[t].items # <<>>
    /\ ReminderStep(t, [thr[t] EXCEPT !.pc = "pr_failed", !.exc = TRUE], db)

\* _generate_reminder_voice and _send_webhook catch what they raise;
\* mark_reminder_sent(rid); the loop goes on with the next row.
ProcessMarkSent(t) ==
    /\ thr[t].pc = "pr_sent"
    /\ ReminderStep(t, [thr[t] EXCEPT !.pc = "pr_for", !.items = Tail(@)],
                    MarkReminderSent(Head(thr[t].items).id))

\* mark_reminder_sent raises: except Exception: mark_reminder_failed(rid).
ProcessMarkSentRaises(t) ==
    /\ thr[t].pc = "pr_sent"
    /\ ReminderStep(t, [thr[t] EXCEPT !.pc = "pr_failed", !.exc = TRUE], db)

\* mark_reminder_failed(rid); the loop goes on with the next row.
ProcessMarkFailed(t) ==
    /\ thr[t].pc = "pr_failed"
    /\ ReminderStep(t, [thr[t] EXCEPT !.pc = "pr_for", !.items = Tail(@)],
                    MarkReminderFailed(Head(thr[t].items).id))

ProcessDueRemindersStep(t) ==
    \/ CallCreateReminder(t) \/ BeginProcessDueReminders(t) \/ ProcessGetDue(t)
    \/ ProcessCreateNotification(t) \/ ProcessCreateNotificationRaises(t)
    \/ ProcessMarkSent(t) \/ ProcessMarkSentRaises(t) \/ ProcessMarkFailed(t)
    \/ Return(t)

\* ------------------------------------------------------- specifications

\* load() and build(), and the return of an operation to its caller.
LoadBuildStep(t) ==
    \/ EnsureStore(t) \/ LoadMissing(t) \/ LoadFails(t) \/ LoadRaises(t)
    \/ LoadRead(t) \/ LoadAssign(t)
    \/ BuildRead(t) \/ BuildReadRaises(t) \/ BuildNone(t) \/ BuildAssign(t)
    \/ BuildSave(t) \/ BuildSaveRaises(t) \/ BuildStatsRead(t)
    \/ BuildStatsWrite(t) \/ BuildStatsWriteRaises(t)
    \/ Return(t)

\* The body of add_memory.
AddMemoryStep(t) ==
    \/ AddCheck(t) \/ AddNew(t) \/ AddNewRaises(t) \/ AddAssign(t)
    \/ AddRef(t) \/ AddIndex(t) \/ AddIndexRaises(t) \/ AddMap(t)
    \/ AddGetStats(t) \/ AddStatsRead(t) \/ AddStatsWrite(t) \/ AddStatsWriteRaises(t)
    \/ AddSave(t) \/ AddSaveRaises(t)

\* The body of get_memory_context_for_query.
ContextStep(t) == ContextCheck(t) \/ ContextSearch(t) \/ ContextSearchRaises(t)

\* The body of similarity_search.
SearchStep(t) == SearchCheck(t) \/ SearchRun(t) \/ SearchRunRaises(t)

CoreStep(t) == LoadBuildStep(t) \/ AddMemoryStep(t) \/ ContextStep(t)

\* Calls of the VectorStore methods and of POST /rebuild.
DirectStep(t) ==
    \/ BeginAddMemory(t) \/ BeginGetContext(t) \/ BeginSimilaritySearch(t)
    \/ BeginRebuild(t) \/ BeginLoad(t)
    \/ SearchStep(t)

\* Calls of ChatService.chat_general and chat_realtime.
ChatServiceStep(t) ==
    \/ BeginChat(t) \/ ChatSessionId(t) \/ ChatHistory(t) \/ ChatLLM(t) \/ ChatLLMRaises(t)
    \/ ChatAppendRead(t) \/ ChatAppendWrite(t) \/ ChatAppendRaises(t)
    \/ ChatSaveMemory(t) \/ ChatReturn(t)

\* A chat request from its arrival at the endpoint to its response.
ChatEndpointStep(t) ==
    \/ BeginChatEndpoint(t) \/ EndpointSessionId(t) \/ EndpointTryReminder(t)
    \/ EndpointCreateReminderRaises(t)
    \/ ChatSessionId(t) \/ ChatHistory(t) \/ ChatLLM(t) \/ ChatLLMRaises(t)
    \/ ChatAppendRead(t) \/ ChatAppendWrite(t) \/ ChatAppendRaises(t)
    \/ ChatSaveMemory(t) \/ ChatReturn(t)

Env == BeginLifespan \/ SetFile \/ Restart

\* VectorStore calls on two handler threads, interleaved at every shared read and write.
Next == (\E t \in Threads : CoreStep(t) \/ DirectStep(t)) \/ Env
Spec == Init /\ [][Next]_vars

\* VectorStore calls, one at a time.
SeqNext == CoreStep("t1") \/ DirectStep("t1") \/ RetrieverStep("t1") \/ Env
SeqSpec == SeqInit /\ [][SeqNext]_vars

\* Queries and rebuilds, one at a time, over a corpus that is edited.
ReadNext ==
    \/ LoadBuildStep("t1") \/ ContextStep("t1")
    \/ BeginGetContext("t1") \/ BeginRebuild("t1")
    \/ Env
ReadSpec == ReadInit /\ [][ReadNext]_vars

\* Chat turns, one at a time.
ChatNext == CoreStep("t1") \/ ChatServiceStep("t1") \/ Env
ChatSpec == ChatInit /\ [][ChatNext]_vars

\* build, load and add_memory calls on two handler threads in which nothing raises:
\* every call returns normally.
NormalStep(t) ==
    \/ BeginAddMemory(t) \/ BeginRebuild(t) \/ BeginLoad(t)
    \/ EnsureStore(t) \/ LoadMissing(t) \/ LoadRead(t) \/ LoadAssign(t)
    \/ BuildRead(t) \/ BuildNone(t) \/ BuildAssign(t) \/ BuildSave(t)
    \/ BuildStatsRead(t) \/ BuildStatsWrite(t)
    \/ AddCheck(t) \/ AddNew(t) \/ AddAssign(t) \/ AddRef(t) \/ AddIndex(t) \/ AddMap(t)
    \/ AddGetStats(t) \/ AddStatsRead(t) \/ AddStatsWrite(t) \/ AddSave(t)
    \/ Return(t)
StatsNext == (\E t \in Threads : NormalStep(t)) \/ Env
StatsSpec == StatsInit /\ [][StatsNext]_vars

\* The worker loop and a caller of /internal/reminders/process, interleaved at
\* every statement of the database.
ReminderNext == (\E t \in Threads : ProcessDueRemindersStep(t)) \/ TimePasses
ReminderSpec == ReminderInit /\ [][ReminderNext]_vars

\* Chat requests through the endpoints, one at a time.
EndpointNext == CoreStep("t1") \/ ChatEndpointStep("t1") \/ Env
EndpointSpec == EndpointInit /\ [][EndpointNext]_vars

\* Calls of the chat session repository, one at a time.
RepoNext == RepositoryStep("t1")
RepoSpec == RepoInit /\ [][RepoNext]_vars

\* Queries with k up to MaxWideK on an index of up to MaxIndexed records.
LimitNext ==
    \/ BeginGetContextOver("t1", WideKs)
    \/ EnsureStore("t1") \/ ContextStep("t1") \/ Return("t1")
LimitSpec == LimitInit /\ [][LimitNext]_vars

\* Register and authenticated requests on two handler threads.
AuthNext == (\E t \in Threads : AuthenticationStep(t)) \/ TimePasses
AuthSpec == AuthInit /\ [][AuthNext]_vars

\* ----------------------------------------------------------- properties

\* The operation op has finished on thread t and is about to return.
Done(t, op) == thr[t].pc = "ret" /\ thr[t].op = op

Queries == {"get_context", "similarity_search"}

\* A conversation memory written for another user than user_id.
Foreign(d, user_id) == IsConversation(d) /\ d.user_id # user_id
Own(d, user_id) == IsConversation(d) /\ d.user_id = user_id

InSeq(s, d) == \E i \in 1..Len(s) : s[i] = d
Pos(s, d) == CHOOSE i \in 1..Len(s) : s[i] = d

\* C1 (isolation): the context returned to a user holds no conversation memory
\* that add_memory wrote for another user.
C1_Isolation ==
    \A t \in Threads : Done(t, "get_context") =>
        \A i \in 1..Len(thr[t].docs) : ~Foreign(thr[t].docs[i], thr[t].user)

\* Another user's memory was among the candidates, and a context was returned.
C1_Witness ==
    \E t \in Threads :
        /\ Done(t, "get_context")
        /\ thr[t].docs # <<>>
        /\ \E i \in 1..Len(thr[t].cands) : Foreign(thr[t].cands[i], thr[t].user)

\* C2 (boundedness): for k >= 0 the context is the join of at most k record texts.
C2_Bounded ==
    \A t \in Threads : Done(t, "get_context") =>
        /\ Len(thr[t].docs) <= thr[t].k
        /\ Len(Join(thr[t].docs)) <= thr[t].k

\* More usable candidates than k were retrieved, and exactly k were returned.
C2_Witness ==
    \E t \in Threads :
        /\ Done(t, "get_context")
        /\ thr[t].k >= 1
        /\ Len(ConversationBucket(thr[t].cands, thr[t].user))
             + Len(LearningBucket(thr[t].cands)) > thr[t].k
        /\ Len(thr[t].docs) = thr[t].k

\* C3 (recency): of two memories of the requesting user among the candidates,
\* with timestamps t1 < t2, the older is returned only together with the newer,
\* and then after it.
C3_Recency ==
    \A t \in Threads : Done(t, "get_context") =>
        \A i, j \in 1..Len(thr[t].cands) :
            LET older == thr[t].cands[i]
                newer == thr[t].cands[j]
            IN  (/\ Own(older, thr[t].user) /\ Own(newer, thr[t].user)
                 /\ older.timestamp < newer.timestamp
                 /\ InSeq(thr[t].docs, older))
                => /\ InSeq(thr[t].docs, newer)
                   /\ Pos(thr[t].docs, newer) < Pos(thr[t].docs, older)

\* The older memory was the nearer candidate, and both were returned.
C3_Witness ==
    \E t \in Threads :
        /\ Done(t, "get_context")
        /\ \E i, j \in 1..Len(thr[t].cands) :
            /\ i < j
            /\ Own(thr[t].cands[i], thr[t].user) /\ Own(thr[t].cands[j], thr[t].user)
            /\ thr[t].cands[i].timestamp < thr[t].cands[j].timestamp
            /\ InSeq(thr[t].docs, thr[t].cands[i])
            /\ InSeq(thr[t].docs, thr[t].cands[j])

\* C4 (rebuild semantics): when the last change of the store in this process is a
\* build that completed, a query returns only chunks made by that build: no record
\* from before it, and no conversation memory.
C4_RebuildReplaces ==
    \A t \in Threads :
        (/\ thr[t].pc = "ret" /\ thr[t].op \in Queries
         /\ lastMut.kind \in {"build", "build_empty"})
        => \A i \in 1..Len(thr[t].docs) :
              /\ ~IsConversation(thr[t].docs[i])
              /\ thr[t].docs[i].gen = lastMut.gen

\* C5 (empty corpus): when the last change of the store in this process is a build
\* over a corpus with no readable non-empty document, a query returns nothing:
\* [] from similarity_search and "" as context, whatever the snapshot holds.
C5_EmptyCorpus ==
    \A t \in Threads :
        (/\ thr[t].pc = "ret" /\ thr[t].op \in Queries
         /\ lastMut.kind = "build_empty")
        => /\ thr[t].docs = <<>>
           /\ ~thr[t].exc => thr[t].out = "ok"

\* C6 (concurrent appends): once two add_memory calls that ran at the same time
\* have both returned normally (no load of the snapshot having failed in either),
\* the index in memory and the snapshot on disk each hold both new records.
C6_BothAppended ==
    \A t, o \in Threads :
        (/\ t # o
         /\ Done(t, "add_memory") /\ thr[t].out = "ok"
         /\ Done(o, "add_memory") /\ thr[o].out = "ok"
         /\ thr[o].peer
         /\ ~thr[t].ldfail /\ ~thr[o].ldfail)
        => /\ store # None
           /\ InSeq(heap[store].ids, thr[t].doc) /\ InSeq(heap[store].ids, thr[o].doc)
           /\ InSeq(disk.ids, thr[t].doc) /\ InSeq(disk.ids, thr[o].doc)

\* C7 (no half-written index): a query never computes its result from an index in
\* which a vector has been added and its document not yet.
C7_NoPartialRead ==
    \A t \in Threads :
        (thr[t].pc = "ret" /\ thr[t].op \in Queries) => ~thr[t].partial

\* C8 as stated: get_memory_context_for_query never raises, and returns "" whenever
\* embedding, loading the snapshot, the implicit build or the search fails.
C8_FailureGivesEmpty ==
    \A t \in Threads : Done(t, "get_context") =>
        /\ thr[t].out = "ok"
        /\ (thr[t].exc \/ thr[t].ldfail) => thr[t].docs = <<>>

\* C8 amended: get_memory_context_for_query never raises, and returns "" whenever
\* embedding the query, the exists() test of load, the implicit build or the search
\* raises.  (A snapshot that fails to load makes load() return False; the implicit
\* build follows and its chunks are searched.)
C8_ReadPathNeverRaises ==
    \A t \in Threads : Done(t, "get_context") =>
        /\ thr[t].out = "ok"
        /\ thr[t].exc => thr[t].docs = <<>>

\* An exception was raised inside the query while records were there to return.
C8_Witness ==
    \E t \in Threads :
        /\ Done(t, "get_context")
        /\ thr[t].exc
        /\ thr[t].k >= 1
        /\ store # None /\ heap[store].ids # <<>>

\* C9 (write path): when add_memory raises inside a chat turn, chat_general and
\* chat_realtime still return the LLM reply, and the user message and the
\* assistant reply stay the last two messages of the session.
C9_MemoryFailureKeepsTurn ==
    \A t \in Threads :
        (thr[t].pc = "ret" /\ thr[t].op \in Chats /\ thr[t].memfail) =>
            /\ thr[t].out = "ok"
            /\ thr[t].rv = thr[t].reply
            /\ LET history == GetHistory(thr[t].user, thr[t].sid)
               IN  /\ Len(history) >= 2
                   /\ history[Len(history) - 1] = Message("user", thr[t].q)
                   /\ history[Len(history)] = Message("assistant", thr[t].reply)

\* add_memory raised inside chat_realtime, which returned the reply.
C9_Witness ==
    \E t \in Threads :
        /\ Done(t, "chat_realtime")
        /\ thr[t].memfail
        /\ thr[t].out = "ok"

\* C10 (rebuild failures are surfaced): the rebuild request answers 500 exactly
\* when a step of build raised, and the success response otherwise.
C10_RebuildSurfacesFailure ==
    \A t \in Threads : Done(t, "rebuild") =>
        /\ thr[t].exc => thr[t].out = "500"
        /\ thr[t].out = "ok" => ~thr[t].exc

\* build raised after the index in memory was replaced, and rebuild answered 500.
C10_Witness ==
    \E t \in Threads :
        /\ Done(t, "rebuild")
        /\ thr[t].exc
        /\ thr[t].out = "500"
        /\ store # None

\* The records of a document sequence without the history kept in them.
Records(docs) ==
    [i \in 1..Len(docs) |->
        [page_content |-> docs[i].page_content, source |-> docs[i].source,
         timestamp |-> docs[i].timestamp, user_id |-> docs[i].user_id]]

\* Two indexes (in memory or on disk) hold the same vectors and documents.
SameIndex(x, y) == Records(x.vecs) = Records(y.vecs) /\ Records(x.ids) = Records(y.ids)

\* C11 (all-or-nothing): when add_memory or build raises on a store that was
\* loaded when the call began, the index in memory, the snapshot and the stats
\* file are exactly as the call found them.
C11_AllOrNothing ==
    \A t \in Threads :
        (/\ thr[t].pc = "ret" /\ thr[t].op \in {"add_memory", "rebuild"}
         /\ thr[t].exc
         /\ ~thr[t].pre.store.free)
        => /\ store # None /\ SameIndex(heap[store], thr[t].pre.store)
           /\ disk.exists = thr[t].pre.disk.exists /\ SameIndex(disk, thr[t].pre.disk)
           /\ stats = thr[t].pre.stats

\* C12 (persistence after every mutation): when build or add_memory has returned
\* without error, the snapshot holds exactly the records of the index in memory
\* (none when there is no index), so that a fresh load() sees the same records.
C12_SnapshotMatchesIndex ==
    \A t \in Threads :
        (/\ thr[t].pc = "ret" /\ thr[t].op \in {"add_memory", "rebuild"}
         /\ thr[t].out = "ok")
        => IF store = None THEN ~disk.exists
           ELSE disk.exists /\ SameIndex(disk, heap[store])

\* The answers of an index to every query: what similarity_search returns (or
\* that it raises), and the context composed from it for every user and k.
Answers(o) ==
    [query \in Msgs |-> [k \in Ks |->
        IF SearchRaises(o, query, k) THEN <<"raises">>
        ELSE <<"docs", SearchDocs(o, query, k),
               [u \in Users |->
                   IF SearchRaises(o, query, FetchLimit(k)) THEN <<>>
                   ELSE Join(Ordered(SearchDocs(o, query, FetchLimit(k)), u, k))]>>]]

\* C13 (load idempotence): a load() called when the store was last assigned by a
\* load() of the same snapshot leaves an index that answers every query as the
\* index it found did.
C13_LoadIdempotent ==
    \A t \in Threads :
        (Done(t, "load") /\ thr[t].m0.loaded)
        => /\ store # None
           /\ ~thr[t].pre.store.free
           /\ Answers(heap[store]) = Answers(thr[t].pre.store)

\* The second of two load() calls in a row returned True over a snapshot with records.
C13_Witness ==
    \E t \in Threads :
        /\ Done(t, "load") /\ thr[t].out = "true"
        /\ thr[t].m0.loaded
        /\ store # None /\ heap[store].ids # <<>>

\* C14 (round trip): when a new instance has started over the snapshot a build()
\* over a non-empty corpus saved, and its load() met no read error, load() returned
\* True and the loaded index answers every query with the same records in the
\* same order as the index that build left.
C14_RoundTrip ==
    \A t \in Threads :
        (/\ Done(t, "lifespan")
         /\ thr[t].m0.built # <<>>
         /\ ~thr[t].ldfail /\ ~thr[t].exc)
        => /\ lastMut.loaded
           /\ store # None
           /\ Answers(heap[store]) = Answers(Faiss(thr[t].m0.built))

\* A restarted process has loaded the snapshot of a two-file corpus.
C14_Witness ==
    \E t \in Threads :
        /\ Done(t, "lifespan")
        /\ lastMut.loaded
        /\ Len(thr[t].m0.built) = 3
        /\ store # None /\ Len(heap[store].ids) = 3

\* C15 (context composition): the returned context lists the requesting user's own
\* memories first, newest first, and after them knowledge records in the order the
\* search returned them; each part is a prefix of its bucket, and the number of
\* segments is min(k, C + K) for C own memories and K knowledge records retrieved.
C15_Composition ==
    \A t \in Threads :
        (Done(t, "get_context") /\ ~thr[t].exc)
        => LET docs == thr[t].docs
               C == Cardinality({i \in 1..Len(thr[t].cands) : Own(thr[t].cands[i], thr[t].user)})
               K == Cardinality({i \in 1..Len(thr[t].cands) : ~IsConversation(thr[t].cands[i])})
               c == Cardinality({i \in 1..Len(docs) : IsConversation(docs[i])})
               knowledge == SelectSeq(thr[t].cands, LAMBDA d : ~IsConversation(d))
           IN  /\ Len(docs) = Min(thr[t].k, C + K)
               /\ c = Min(thr[t].k, C)
               /\ \A i \in 1..c : Own(docs[i], thr[t].user)
               /\ \A i \in 1..(c - 1) : docs[i].timestamp >= docs[i + 1].timestamp
               /\ \A i \in 1..c : \A j \in 1..Len(thr[t].cands) :
                     (Own(thr[t].cands[j], thr[t].user) /\ ~InSeq(docs, thr[t].cands[j]))
                     => thr[t].cands[j].timestamp <= docs[i].timestamp
               /\ \A i \in (c + 1)..Len(docs) : docs[i] = knowledge[i - c]

\* A context of one own memory followed by one knowledge record, with more of
\* both kinds of candidates left out or available.
C15_Witness ==
    \E t \in Threads :
        /\ Done(t, "get_context") /\ ~thr[t].exc
        /\ thr[t].k = 2
        /\ Len(thr[t].docs) = 2
        /\ IsConversation(thr[t].docs[1]) /\ ~IsConversation(thr[t].docs[2])
        /\ \E i \in 1..Len(thr[t].cands) :
              ~IsConversation(thr[t].cands[i]) /\ ~InSeq(thr[t].docs, thr[t].cands[i])

\* C16 (build updates stats after persisting): when build() has returned normally
\* to the rebuild request, the stats file gives as doc_count the number of records
\* that build put in the index and as last_rebuild_time the time of that build;
\* and while build is at its stats update the snapshot already holds the new index.
C16_BuildStats ==
    \A t \in Threads :
        /\ (thr[t].pc = "ret" /\ thr[t].op = "rebuild" /\ thr[t].out = "ok")
           => /\ stats.vector_store_doc_count =
                    (IF store = None THEN 0 ELSE Len(heap[store].ids))
              /\ thr[t].lrt # None
              /\ stats.last_rebuild_time = thr[t].lrt
        /\ (thr[t].op = "rebuild" /\ thr[t].pc \in {"b_st", "b_st_w"})
           => store # None /\ disk.exists /\ SameIndex(disk, heap[store])

\* C17 (add leaves last_rebuild_time alone): under every interleaving of add_memory
\* and build calls, the stored last_rebuild_time is the time of the latest build
\* that wrote the stats (null when there is none): no add_memory changes it.
C17_AddKeepsRebuildTime == stats.last_rebuild_time = lastMut.lrt

\* C18 (never-populated store): when the corpus has no readable document, no
\* snapshot exists and the index in memory was None when the call began,
\* get_memory_context_for_query returns "" without raising, for every query,
\* user and k.
C18_NeverPopulated ==
    \A t \in Threads :
        (/\ Done(t, "get_context")
         /\ \A f \in Files : files[f] # "ok"
         /\ ~thr[t].pre.disk.exists
         /\ thr[t].pre.store.free)
        => thr[t].out = "ok" /\ thr[t].docs = <<>>

\* A query with k >= 1 ran its implicit build over the empty corpus and returned.
C18_Witness ==
    \E t \in Threads :
        /\ Done(t, "get_context")
        /\ \A f \in Files : files[f] # "ok"
        /\ ~thr[t].pre.disk.exists /\ thr[t].pre.store.free
        /\ thr[t].k >= 1 /\ ~thr[t].exc
        /\ lastMut.kind = "build_empty" /\ lastMut.gen >= 2

\* C19 (loader tolerance): the chunks build() makes come from exactly the files
\* that can be read and hold non-blank text, each file once and in glob order, each
\* chunk attributed to its file name; a blank or unreadable file is skipped and
\* neither hides the other files nor makes the load raise.
C19_LoaderTolerance ==
    /\ \A f \in Files :
          Cardinality({i \in 1..Len(LoadLearningDocuments(files)) :
                          LoadLearningDocuments(files)[i] = f})
          = (IF files[f] = "ok" THEN 1 ELSE 0)
    /\ \A t \in Threads :
          /\ thr[t].pc = "b_none" => \A f \in Files : files[f] # "ok"
          /\ thr[t].pc = "b_set" =>
                LET chunks == heap[thr[t].ref].ids
                IN  /\ \A f \in Files :
                          Cardinality({i \in 1..Len(chunks) : chunks[i].source = f})
                          = (IF files[f] = "ok" THEN NumChunks(f) ELSE 0)
                    /\ \A i \in 1..Len(chunks) :
                          /\ chunks[i].source \in Files
                          /\ chunks[i].page_content.file = chunks[i].source

\* build() has read a corpus with one unreadable or blank file and one good file.
C19_Witness ==
    \E t \in Threads :
        /\ thr[t].pc = "b_set"
        /\ \E f \in Files : files[f] \in {"blank", "unreadable"}
        /\ \E f \in Files : files[f] = "ok"
        /\ heap[thr[t].ref].ids # <<>>

C21_HistoryRoundTrip ==
    /\ (\A t \in Threads : thr[t].pc \in {"idle", "ret"}) =>
        \A call \in DOMAIN appended : GetHistory(call[1], call[2]) = appended[call]
    /\ \A t \in Threads : Done(t, "list_sessions") =>
        /\ thr[t].total = Cardinality({call \in DOMAIN appended : call[1] = thr[t].user})
        /\ \A i \in 1..Len(thr[t].items) :
            thr[t].items[i].message_count
                = Len(GetHistory(thr[t].user, thr[t].items[i].session_id))

\* C22: chat history is user-scoped.  No call made for one user reads, accepts as
\* existing, or writes a session file of another user's directory, whatever
\* session_id string the client sent.
C22_UserScoped ==
    \A t \in Threads :
        /\ Done(t, "get_history") /\ thr[t].hist # <<>>
            => ChatFile(thr[t].user, thr[t].sid)[1] = thr[t].user
        /\ Done(t, "get_or_create_session_id") /\ thr[t].sid = thr[t].csid
            => ChatFile(thr[t].user, thr[t].sid)[1] = thr[t].user
        /\ Done(t, "append_message") /\ ~thr[t].exc
            => ChatFile(thr[t].user, thr[t].sid)[1] = thr[t].user

\* C23: registered emails stay unique.  No two rows of users have the same trimmed,
\* lower-cased email; and a register request for an email that was registered when
\* it arrived is answered with 400, creates no user and issues no token.
C23_UniqueEmails ==
    /\ \A i, j \in DOMAIN db.users :
        Lower(Strip(db.users[i].email)) = Lower(Strip(db.users[j].email)) => i = j
    /\ \A t \in Threads : Done(t, "register") /\ thr[t].existed =>
        /\ thr[t].out = "400"
        /\ thr[t].uid = None
        /\ thr[t].token = NoToken

\* Two requests for one email ran at once; one created the user, the other was
\* refused by the INSERT.  And a request for a registered email was refused.
C23_Witness ==
    /\ \E t \in Threads :
        /\ Done(t, "register") /\ thr[t].exc /\ thr[t].out = "400" /\ ~thr[t].existed
        /\ UsersByEmail(thr[t].email) # {}
    /\ \E t \in Threads :
        Done(t, "register") /\ thr[t].existed /\ thr[t].out = "400"

\* C24: the authentication gate.  A call of get_current_user returns a user record
\* exactly when credentials are present, the token decodes to a subject (signed with
\* the secret, not expired) and the users table holds a row with that id, and the
\* record is that row's; in every other case it raises 401 and returns no user.
C24_AuthenticationGate ==
    [][\A t \in Threads :
        thr[t].pc = "idle" /\ thr'[t].op = "get_current_user" =>
            LET c == thr'[t].token
                admitted == /\ c.header = "bearer"
                            /\ c.key = "JWT_SECRET" /\ c.exp >= now /\ c.sub # <<>>
                            /\ IntOf(c.sub) \in DOMAIN db.users
            IN  IF admitted
                THEN /\ thr'[t].out = "200"
                     /\ thr'[t].account.id = IntOf(c.sub)
                     /\ thr'[t].account.email = db.users[IntOf(c.sub)].email
                     /\ thr'[t].account.name = db.users[IntOf(c.sub)].name
                ELSE /\ thr'[t].out = "401"
                     /\ thr'[t].account = IdleThread.account]_vars

\* One request was admitted with the token register issued; another, carrying a
\* well-signed, unexpired token of a user the table does not hold, got 401.
C24_Witness ==
    \E t, o \in Threads :
        /\ Done(t, "get_current_user") /\ thr[t].out = "200"
        /\ thr[t].token.exp = JWT_EXPIRE_MINUTES + 1
        /\ thr[t].account.id \in DOMAIN db.users
        /\ Done(o, "get_current_user") /\ thr[o].out = "401"
        /\ thr[o].token.key = "JWT_SECRET" /\ thr[o].token.exp >= now
        /\ IntOf(thr[o].token.sub) \notin DOMAIN db.users

\* C25: the over-fetch limit.  For every k >= 0, get_memory_context_for_query asks
\* the similarity search for exactly min(2k, 12) candidates, and the context it
\* returns is the join of at most min(k, 12) record texts.
C25_OverFetchLimit ==
    \A t \in Threads : Done(t, "get_context") =>
        /\ ~thr[t].exc /\ store # None =>
            thr[t].cands = SearchDocs(heap[store], thr[t].q, Min(2 * thr[t].k, 12))
        /\ Len(thr[t].cands) <= Min(2 * thr[t].k, 12)
        /\ Len(Join(thr[t].docs)) <= Min(thr[t].k, 12)

\* A query with k above 12 on an index of more than 12 records got 12 candidates
\* and returned all 12.
C25_Witness ==
    \E t \in Threads :
        /\ Done(t, "get_context") /\ ~thr[t].exc
        /\ thr[t].k > 12 /\ store # None /\ Len(heap[store].ids) > 12
        /\ Len(thr[t].cands) = 12
        /\ Len(Join(thr[t].docs)) = 12

\* The calls that initialize the store on first use.
FirstUse == {"similarity_search", "get_retriever", "get_context", "add_memory"}

\* C26: load before build on first use.  A call of similarity_search, get_retriever,
\* get_memory_context_for_query or add_memory that finds no index in memory attempts
\* load() first and invokes build() only after load() returned False; and when the
\* snapshot is usable (load() returns True) the call does not build, and a query
\* leaves the snapshot as it was.
C26_LoadBeforeBuild ==
    \A t \in Threads : thr[t].in \in FirstUse =>
        /\ thr[t].didbuild => thr[t].loadrv = "false"
        /\ thr[t].pc = "ret" /\ thr[t].cold /\ thr[t].loadrv = "none" =>
                thr[t].exc /\ ~thr[t].didbuild
        /\ thr[t].loadrv = "true" =>
            /\ ~thr[t].didbuild
            /\ thr[t].pc = "ret" /\ thr[t].in # "add_memory" => disk = thr[t].pre.disk

\* A get_retriever call found no index in memory, loaded the usable snapshot and
\* returned a retriever over it without building.
C26_Witness ==
    \E t \in Threads :
        /\ thr[t].op = "get_retriever" /\ thr[t].pc = "ret" /\ thr[t].cold
        /\ thr[t].loadrv = "true" /\ thr[t].pre.disk.exists /\ store # None
        /\ thr[t].out = "retriever"

\* C27: when POST /chat/general or /chat/realtime answers 200 with session_id s and
\* every write of the session file succeeded, get_history(user, s) ends with the
\* turn's user message followed by its assistant reply.
C27_ReturnedSessionHoldsTurn ==
    \A t \in Threads :
        (/\ thr[t].pc = "ret" /\ thr[t].op \in Chats /\ thr[t].tool # "none"
         /\ thr[t].out = "ok" /\ ~thr[t].appfail)
        => LET h == GetHistory(thr[t].user, thr[t].rsid)
           IN  /\ Len(h) >= 2
               /\ h[Len(h) - 1] = Message("user", thr[t].q)
               /\ h[Len(h)] = Message("assistant", thr[t].reply)

\* C28: when the application serves and no call is in progress, every build, load
\* and add_memory call so far having returned normally, the doc_count of the stats
\* file is the number of records of the index in memory (0 when there is none).
C28_StatsMatchIndex ==
    (up = "up" /\ \A t \in Threads : thr[t].pc \in {"idle", "ret"})
    => stats.vector_store_doc_count = (IF store = None THEN 0 ELSE Len(heap[store].ids))

\* get_memory_context_for_query(query, user_id, k) over the index o: the segments
\* of the context; "" when the search raises.
ContextOf(o, query, user_id, k) ==
    IF SearchRaises(o, query, FetchLimit(k)) THEN <<>>
    ELSE Join(Ordered(SearchDocs(o, query, FetchLimit(k)), user_id, k))

\* C29: when add_memory for a user has returned normally on an existing index,
\* get_memory_context_for_query gives every other user, for every query and k,
\* the same context on the index after the call as on the index before it.
C29_OthersWritesKeepContext ==
    \A t \in Threads :
        (/\ Done(t, "add_memory") /\ thr[t].out = "ok"
         /\ ~thr[t].pre.store.free /\ store # None)
        => \A a \in Users \ {thr[t].user}, query \in Msgs, k \in Ks :
              ContextOf(heap[store], query, a, k) = ContextOf(thr[t].pre.store, query, a, k)

\* The notifications created for a reminder.
NotificationsFor(reminder_id) ==
    {i \in 1..Len(db.notifications) : db.notifications[i].reminder = reminder_id}

\* A step leaves the status of every reminder alone or takes it from pending to
\* sent or to failed.
StatusStep ==
    \A i \in 1..Len(db.reminders) :
        \/ db'.reminders[i].status = db.reminders[i].status
        \/ /\ db.reminders[i].status = "pending"
           /\ db'.reminders[i].status \in {"sent", "failed"}

\* C30: under every interleaving of the worker loop and /internal/reminders/process,
\* at most one notification is ever created for a reminder, and the status of a
\* reminder changes only from pending to sent or from pending to failed.
C30_DeliveredAtMostOnce ==
    /\ [](\A i \in 1..Len(db.reminders) :
              Cardinality(NotificationsFor(db.reminders[i].id)) <= 1)
    /\ [][StatusStep]_vars

====
